---- MODULE Spec2Model ----
(***************************************************************************)
(* Code Kingdom (vscode-code-kingdom): the ownership-map pipeline.         *)
(*   - layout engine of the webview (computeFileSize, packMaxRects,        *)
(*     pruneFreeRects, pickBestPacking, computeLayout)                     *)
(*   - file tree builder (ignore stack, countLines) and blame attribution  *)
(*   - author colour lookup                                                *)
(* Each part has its own specification over the shared variables; the      *)
(* variables of the other parts stay at their idle value.                  *)
(***************************************************************************)
EXTENDS Integers, Sequences, FiniteSets, TLC

VARIABLES
    \* ---- layout engine (webview script) ----
    treeData,     \* the tree handed to the webview (root folder node)
    rects,        \* child boxes of the root folder, input of pickBestPacking
    cand,         \* index of the candidate target width being packed (1..6), 7 = all tried
    sorted,       \* rectangles of the current packMaxRects call not yet placed
    freeRects,    \* free regions of the current packMaxRects call
    placed,       \* rectangles placed by the current packMaxRects call
    best,         \* best packing so far in pickBestPacking, or NoBest
    layoutRoot,   \* result of computeLayout(treeData), or NoLayout
    \* ---- countLines (read stream) ----
    fileBytes,    \* content of the file being streamed
    streamPos,    \* number of bytes already delivered to the 'data' handler
    lineCount,    \* countLines: let lineCount
    hasData,      \* countLines: let hasData
    lastByte,     \* countLines: let lastByte (-1 = null)
    streamChunks, \* number of 'data' events delivered so far
    streamState,  \* "idle" | "open" | "resolved"
    \* ---- getBlameSegments (run-length loop) ----
    authors,      \* getBlameSegments: const authors (one per line)
    rleI,         \* loop index i (as a 1-based position into authors)
    rleLast,      \* let last
    rleCount,     \* let count
    segments,     \* const segments
    rleState,     \* "idle" | "loop" | "returned"
    \* ---- addBlameInfo over a built tree ----
    disk,         \* working tree: path -> bytes of the file
    bTree,        \* the tree buildFileTree returned (folders and files by path)
    bNodes,       \* the file nodes: path -> [isText, lineCount, blameSegments]
    bFiles,       \* addBlameInfo: const files
    bDone,        \* addBlameInfo: let done
    bProgress,    \* the onProgress calls made so far
    bEvents,      \* what addBlameInfo did so far: progress, query, settled, write
    bPc,          \* "idle" | "start" | "loop" | "await" | "finished"
    \* ---- getBlameSegments (parsing loop) ----
    pRecords,     \* the attribution records of the backend's output
    pNext,        \* position of the loop in the lines of the output
    pAuthors,     \* const authors, as far as the loop has filled it
    currentAuthor,\* let currentAuthor
    pPc,          \* "idle" | "loop" | "parsed"
    \* ---- buildFileTree: the walk ----
    fsys,         \* the working tree: directories, files, ignore files
    wFrames,      \* the buildNode calls in progress on directories, outermost first
    wResult,      \* what buildFileTree resolved with
    wPc,          \* "idle" | "start" | "walk" | "done"
    wFault,       \* the filesystem access that failed during the walk, if one did
    \* ---- buildNode on one directory ----
    dEntries,     \* what buildNode returns for the entries, in readdir order
    dChildren,    \* const children
    dNext,        \* position of the loop in dEntries
    dPc,          \* "idle" | "loop" | "returned"
    \* ---- author colours ----
    storedColors, \* globalState 'code-kingdom.authorColors'
    lastAuthors,  \* activate: let lastAuthors
    viewColors,   \* const authorColors of the tree view's script
    viewShown,    \* currentPanel && lastFileTree
    drawn,        \* the last colorForAuthor call of the view: author and result
    \* ---- the showFileTree command ----
    shStorage,    \* context.storageUri is there
    shHead,       \* the revision HEAD names
    shFiles,      \* number of text files of the working tree
    shCache,      \* the cache files: revision -> content
    shRuns,       \* the runs of the command: position, locals, panel page, what was done
    shConfig,     \* the colour configuration panel and its rows
    shPending,    \* the 'saveColors' handler between its await and its render
    lastFileTree, \* activate: let lastFileTree
    currentPanel  \* activate: let currentPanel (the run whose panel it is, or NoPanel)

layoutVars == <<treeData, rects, cand, sorted, freeRects, placed, best, layoutRoot>>
streamVars == <<fileBytes, streamPos, lineCount, hasData, lastByte, streamChunks, streamState>>
rleVars == <<authors, rleI, rleLast, rleCount, segments, rleState>>
blameVars == <<disk, bTree, bNodes, bFiles, bDone, bProgress, bEvents, bPc>>
walkVars == <<fsys, wFrames, wResult, wPc, wFault>>
dirVars == <<dEntries, dChildren, dNext, dPc>>
parseVars == <<pRecords, pNext, pAuthors, currentAuthor, pPc>>
colourVars == <<storedColors, lastAuthors, viewColors, viewShown, drawn>>
showVars ==
    <<shStorage, shHead, shFiles, shCache, shRuns, shConfig, shPending, lastFileTree,
      currentPanel>>

vars ==
    <<layoutVars, streamVars, rleVars, blameVars, walkVars, dirVars, parseVars, colourVars,
      showVars>>

-----------------------------------------------------------------------------
(* Generic helpers *)

Max(a, b) == IF a >= b THEN a ELSE b
Min(a, b) == IF a <= b THEN a ELSE b
Abs(a) == IF a < 0 THEN -a ELSE a

RemoveAt(s, i) == SubSeq(s, 1, i - 1) \o SubSeq(s, i + 1, Len(s))

-----------------------------------------------------------------------------
(* CONFIG of the webview script *)

FileWidth == 80
Gap == 4
Padding == 8
HeaderHeight == 16
MinHeight == 12

-----------------------------------------------------------------------------
(* Tree nodes as the webview receives them *)

TextFile(n)  == [type |-> "file", isText |-> TRUE, lineCount |-> n, children |-> <<>>]
BinaryFile   == [type |-> "file", isText |-> FALSE, lineCount |-> 0, children |-> <<>>]
Folder(kids) == [type |-> "folder", isText |-> FALSE, lineCount |-> 0, children |-> kids]

\* mutant of computeFileSize: the floor CONFIG.minHeight is forgotten
computeFileSizeNoFloor(node) ==
    IF ~node.isText
    THEN [width |-> FileWidth, height |-> FileWidth]
    ELSE [width |-> FileWidth, height |-> IF node.lineCount = 0 THEN 1 ELSE node.lineCount]

\* computeFileSize: a non-text node is a square, a text node is lineCount high
\* (lineCount || 1) with the floor CONFIG.minHeight.
computeFileSize(node) ==
    IF ~node.isText
    THEN [width |-> FileWidth, height |-> FileWidth]
    ELSE [width |-> FileWidth,
          height |-> Max(MinHeight, IF node.lineCount = 0 THEN 1 ELSE node.lineCount)]

-----------------------------------------------------------------------------
(* Target widths.  pickBestPacking packs at target = base * f for            *)
(* f in 0.7, 0.85, 1, 1.2, 1.5, 2 with base = max(maxWidth, sqrt(totalArea)).*)
(* The target is a real number; every free region's width is target + wk for *)
(* an integer wk <= 0, and every other quantity of the packing is an integer.*)
(* A comparison of an integer n with the target is decided exactly on the    *)
(* squares: n <= target  <=>  n <= 0 \/ n^2 <= f^2 * max(maxWidth^2, area).  *)

\* f^2 as a fraction <<numerator, denominator>>, in the order tried
FactorSq == << <<49, 100>>, <<289, 400>>, <<1, 1>>, <<36, 25>>, <<9, 4>>, <<4, 1>> >>
NumCandidates == Len(FactorSq)

RECURSIVE totalAreaOf(_)
totalAreaOf(rs) ==
    IF rs = <<>> THEN 0 ELSE Head(rs).width * Head(rs).height + totalAreaOf(Tail(rs))

RECURSIVE maxWidthOf(_)
maxWidthOf(rs) == IF rs = <<>> THEN 0 ELSE Max(Head(rs).width, maxWidthOf(Tail(rs)))

RECURSIVE totalHeightOf(_)
\* packMaxRects: sum of the heights + rects.length * gap
totalHeightOf(rs) ==
    IF rs = <<>> THEN 0 ELSE Head(rs).height + Gap + totalHeightOf(Tail(rs))

\* base^2;  Math.sqrt(totalArea) || maxWidth
BaseSq(rs) == Max(maxWidthOf(rs) * maxWidthOf(rs), totalAreaOf(rs))

\* a target width: tq = floor(target^2), exact = target^2 is an integer
TargetOf(rs, c) ==
    LET num == FactorSq[c][1]
        den == FactorSq[c][2]
        b == BaseSq(rs)
    IN [tq |-> (b \div den) * num + (((b % den) * num) \div den),
        exact |-> ((b % den) * num) % den = 0]

\* n <= target
LeqT(n, t) == n <= 0 \/ n * n <= t.tq
\* n < target
LessT(n, t) == n <= 0 \/ (IF t.exact THEN n * n < t.tq ELSE n * n <= t.tq)

-----------------------------------------------------------------------------
(* packMaxRects                                                              *)
(* The loops are recursive operators; each tests its accumulator in its     *)
(* guard (a test that never succeeds), so that one iteration is evaluated   *)
(* before the next one starts.                                              *)

MaxDim(r) == Max(r.width, r.height)

RECURSIVE InsertSorted(_, _)
\* insertion that keeps equal keys in input order (Array.prototype.sort is stable)
InsertSorted(r, s) ==
    IF s = <<>> THEN <<r>>
    ELSE IF MaxDim(Head(s)) >= MaxDim(r)
         THEN <<Head(s)>> \o InsertSorted(r, Tail(s))
         ELSE <<r>> \o s

RECURSIVE SortFrom(_, _)
SortFrom(rs, acc) ==
    IF rs = <<>> \/ Len(acc) < 0 THEN acc
    ELSE SortFrom(Tail(rs), InsertSorted(Head(rs), acc))

\* rects.slice().sort((a, b) => max(b) - max(a)): largest maximum dimension first
sortRects(rs) == SortFrom(rs, <<>>)

\* A free region: x, y, height are integers, its width is target + wk.
FreeRect(x, y, wk, h) == [x |-> x, y |-> y, wk |-> wk, height |-> h]

\* rect.width <= fr.width && rect.height <= fr.height
Fits(r, fr, t) == LeqT(r.width - fr.wk, t) /\ r.height <= fr.height

\* score = Math.min(leftoverX, leftoverY); leftoverX = target + (fr.wk - r.width).
\* A score is [onT |-> TRUE, k] for target + k, or [onT |-> FALSE, k] for k.
ScoreOf(r, fr, t) ==
    LET a == fr.wk - r.width
        b == fr.height - r.height
    IN IF ~LessT(b - a, t) THEN [onT |-> TRUE, k |-> a] ELSE [onT |-> FALSE, k |-> b]

\* s1 < s2
ScoreLess(s1, s2, t) ==
    CASE s1.onT = s2.onT -> s1.k < s2.k
      [] s1.onT /\ ~s2.onT -> ~LeqT(s2.k - s1.k, t)
      [] OTHER -> LessT(s1.k - s2.k, t)

RECURSIVE FindBestFrom(_, _, _, _, _, _)
\* the inner loop over freeRects: a later region wins only with a strictly smaller score
FindBestFrom(r, frs, t, i, bestIndex, bestScore) ==
    IF i > Len(frs) THEN bestIndex
    ELSE IF Fits(r, frs[i], t)
            /\ (bestIndex = 0 \/ ScoreLess(ScoreOf(r, frs[i], t), bestScore, t))
         THEN FindBestFrom(r, frs, t, i + 1, i, ScoreOf(r, frs[i], t))
         ELSE FindBestFrom(r, frs, t, i + 1, bestIndex, bestScore)

\* index of the chosen free region, 0 for bestIndex = -1
FindBest(r, frs, t) == FindBestFrom(r, frs, t, 1, 0, [onT |-> FALSE, k |-> 0])

\* a is fully inside b
Contained(a, b) ==
    /\ a.x >= b.x
    /\ a.y >= b.y
    /\ a.x + a.wk <= b.x + b.wk
    /\ a.y + a.height <= b.y + b.height

RECURSIVE PruneFrom(_, _)
PruneFrom(frs, i) ==
    IF i = 0 THEN frs
    ELSE IF \E j \in 1..Len(frs) : j # i /\ Contained(frs[i], frs[j])
         THEN PruneFrom(RemoveAt(frs, i), i - 1)
         ELSE PruneFrom(frs, i - 1)

\* pruneFreeRects: from the last region down, drop a region contained in another
pruneFreeRects(frs) == PruneFrom(frs, Len(frs))

\* the region appended when nothing fits: { x: 0, y: totalHeight, width: targetWidth,
\* height: rect.height + gap }
ExtendRect(r, totalHeight) == FreeRect(0, totalHeight, 0, r.height + Gap)

\* mutant of PlaceStep: a rectangle that fits no free region is dropped
PlaceStepNoExtend(st, r, t, totalHeight) ==
    IF FindBest(r, st.free, t) = 0 THEN st
    ELSE [free |-> st.free,
          placed |-> Append(st.placed, [r EXCEPT !.x = st.free[FindBest(r, st.free, t)].x,
                                                 !.y = st.free[FindBest(r, st.free, t)].y])]

\* One iteration of the placement loop on state st = [free, placed].
PlaceStep(st, r, t, totalHeight) ==
    LET found == FindBest(r, st.free, t)
        frs == IF found = 0 THEN Append(st.free, ExtendRect(r, totalHeight)) ELSE st.free
        bestIndex == IF found = 0 THEN Len(frs) ELSE found
        target == frs[bestIndex]
        placedRect == [r EXCEPT !.x = target.x, !.y = target.y]
        right == FreeRect(target.x + r.width + Gap, target.y,
                          target.wk - r.width - Gap, r.height)
        bottom == FreeRect(target.x, target.y + r.height + Gap,
                           target.wk, target.height - r.height - Gap)
        withRight == IF LessT(-right.wk, t) /\ right.height > 0
                     THEN Append(RemoveAt(frs, bestIndex), right)
                     ELSE RemoveAt(frs, bestIndex)
        withBottom == IF LessT(-bottom.wk, t) /\ bottom.height > 0
                      THEN Append(withRight, bottom)
                      ELSE withRight
    IN [free |-> pruneFreeRects(withBottom), placed |-> Append(st.placed, placedRect)]

\* state of packMaxRects before the loop
PackStart(rs) == [free |-> <<FreeRect(0, 0, 0, totalHeightOf(rs))>>, placed |-> <<>>]

RECURSIVE PlaceAll(_, _, _, _)
PlaceAll(st, queue, t, totalHeight) ==
    IF queue = <<>> \/ Len(st.placed) < 0 THEN st
    ELSE PlaceAll(PlaceStep(st, Head(queue), t, totalHeight), Tail(queue), t, totalHeight)

RECURSIVE ExtentX(_)
ExtentX(ps) == IF ps = <<>> THEN 0 ELSE Max(Head(ps).x + Head(ps).width, ExtentX(Tail(ps)))

RECURSIVE ExtentY(_)
ExtentY(ps) == IF ps = <<>> THEN 0 ELSE Max(Head(ps).y + Head(ps).height, ExtentY(Tail(ps)))

RECURSIVE OriginX(_)
OriginX(ps) == IF ps = <<>> THEN 0 ELSE Max(Head(ps).x, OriginX(Tail(ps)))

RECURSIVE OriginY(_)
OriginY(ps) == IF ps = <<>> THEN 0 ELSE Max(Head(ps).y, OriginY(Tail(ps)))

\* mutant of PackResult: the extent is taken over the origins (rect.x, rect.y)
\* instead of the far corners
PackResultOfOrigins(ps) == [width |-> OriginX(ps), height |-> OriginY(ps), children |-> ps]

\* the value packMaxRects returns for the placed rectangles
PackResult(ps) == [width |-> ExtentX(ps), height |-> ExtentY(ps), children |-> ps]

packMaxRects(rs, t) ==
    PackResult(PlaceAll(PackStart(rs), sortRects(rs), t, totalHeightOf(rs)).placed)

-----------------------------------------------------------------------------
(* pickBestPacking *)

NoBest == [none |-> TRUE]

\* score = |width - height| + 0.02 * (area - totalArea), kept as 50 * score
Score50(packed, totalArea) ==
    50 * Abs(packed.width - packed.height) + (packed.width * packed.height - totalArea)

\* mutant of BetterOf: a candidate with the same score replaces the best one
BetterOfOrEqual(b, packed, totalArea) ==
    IF b = NoBest \/ Score50(packed, totalArea) <= b.score
    THEN [width |-> packed.width, height |-> packed.height,
          children |-> packed.children, score |-> Score50(packed, totalArea)]
    ELSE b

\* if (!best || score < best.score) best = { ...packed, score }
BetterOf(b, packed, totalArea) ==
    IF b = NoBest \/ Score50(packed, totalArea) < b.score
    THEN [width |-> packed.width, height |-> packed.height,
          children |-> packed.children, score |-> Score50(packed, totalArea)]
    ELSE b

RECURSIVE PickFrom(_, _, _)
PickFrom(rs, c, b) ==
    IF c > NumCandidates \/ b = <<>> THEN b
    ELSE PickFrom(rs, c + 1, BetterOf(b, packMaxRects(rs, TargetOf(rs, c)), totalAreaOf(rs)))

pickBestPacking(rs) == PickFrom(rs, 1, NoBest)

-----------------------------------------------------------------------------
(* computeLayout *)

RECURSIVE ShiftAllNoHeader(_)
\* mutant of ShiftAll: the header band is not added to y
ShiftAllNoHeader(ps) ==
    IF ps = <<>> THEN <<>>
    ELSE <<[Head(ps) EXCEPT !.x = @ + Padding, !.y = @ + Padding]>>
         \o ShiftAllNoHeader(Tail(ps))

RECURSIVE ShiftAll(_)
\* children: x + padding, y + padding + headerHeight
ShiftAll(ps) ==
    IF ps = <<>> THEN <<>>
    ELSE <<[Head(ps) EXCEPT !.x = @ + Padding, !.y = @ + Padding + HeaderHeight]>>
         \o ShiftAll(Tail(ps))

LaidOut(node, w, h, kids) ==
    [type |-> node.type, isText |-> node.isText, lineCount |-> node.lineCount,
     width |-> w, height |-> h, x |-> 0, y |-> 0, children |-> kids]

\* the folder's box around a packing of its children
FolderBox(node, packed) ==
    LaidOut(node, packed.width + Padding * 2,
            packed.height + Padding * 2 + HeaderHeight, ShiftAll(packed.children))

RECURSIVE computeLayout(_)
RECURSIVE LayoutAll(_)
LayoutAll(ns) == IF ns = <<>> THEN <<>> ELSE <<computeLayout(Head(ns))>> \o LayoutAll(Tail(ns))

computeLayout(node) ==
    IF node.type = "file"
    THEN LaidOut(node, computeFileSize(node).width, computeFileSize(node).height, <<>>)
    ELSE IF node.children = <<>>
         THEN LaidOut(node, computeFileSize(BinaryFile).width,
                      computeFileSize(BinaryFile).height, <<>>)
         ELSE FolderBox(node, pickBestPacking(LayoutAll(node.children)))

-----------------------------------------------------------------------------
(* The layout run of the webview: init() calls computeLayout(treeData).  The  *)
(* packing of the root folder's children is taken one loop iteration at a     *)
(* time; sub-folders are laid out by the same operators.                      *)

MaxChildren == 4        \* children of the root folder
RowFolderFiles == 7     \* files of the larger sub-folder
RowFolderLines == 200   \* line count of each of its files

LineCounts == {10, 100, 5500}
FileKinds == {TextFile(n) : n \in LineCounts} \cup {BinaryFile}
FolderKinds ==
    {Folder(<<>>), Folder([i \in 1..RowFolderFiles |-> TextFile(RowFolderLines)])}

\* buildFileTree orders the children of a folder folders-first
ChildLists ==
    {<<>>} \cup
    UNION {{fs \o ff : fs \in [1..k -> FolderKinds], ff \in [1..(n - k) -> FileKinds]}
           : <<n, k>> \in {<<n, k>> \in (1..MaxChildren) \X (0..MaxChildren) : k <= n}}

NoLayout == [none |-> TRUE]

LayoutInit ==
    /\ treeData \in {Folder(kids) : kids \in ChildLists}
    /\ rects = LayoutAll(treeData.children)
    /\ cand = 1
    /\ sorted = sortRects(rects)
    /\ freeRects = PackStart(rects).free
    /\ placed = <<>>
    /\ best = NoBest
    /\ layoutRoot = NoLayout

\* one iteration of "for (const rect of sorted)" in packMaxRects
PlaceRect ==
    /\ layoutRoot = NoLayout
    /\ rects # <<>>
    /\ cand <= NumCandidates
    /\ sorted # <<>>
    /\ LET st == PlaceStep([free |-> freeRects, placed |-> placed], Head(sorted),
                           TargetOf(rects, cand), totalHeightOf(rects))
       IN /\ freeRects' = st.free
          /\ placed' = st.placed
    /\ sorted' = Tail(sorted)
    /\ UNCHANGED <<treeData, rects, cand, best, layoutRoot>>

\* packMaxRects returns; pickBestPacking scores the packing and starts the next
\* candidate
FinishPacking ==
    /\ layoutRoot = NoLayout
    /\ rects # <<>>
    /\ cand <= NumCandidates
    /\ sorted = <<>>
    /\ best' = BetterOf(best, PackResult(placed), totalAreaOf(rects))
    /\ cand' = cand + 1
    /\ IF cand < NumCandidates
       THEN /\ sorted' = sortRects(rects)
            /\ freeRects' = PackStart(rects).free
            /\ placed' = <<>>
       ELSE UNCHANGED <<sorted, freeRects, placed>>
    /\ UNCHANGED <<treeData, rects, layoutRoot>>

\* computeLayout of the root: the folder box around the best packing
FinishLayout ==
    /\ layoutRoot = NoLayout
    /\ rects # <<>>
    /\ cand > NumCandidates
    /\ layoutRoot' = FolderBox(treeData, best)
    /\ UNCHANGED <<treeData, rects, cand, sorted, freeRects, placed, best>>

\* computeLayout of a root without children: the placeholder footprint
LayoutEmpty ==
    /\ layoutRoot = NoLayout
    /\ rects = <<>>
    /\ layoutRoot' = computeLayout(treeData)
    /\ UNCHANGED <<treeData, rects, cand, sorted, freeRects, placed, best>>

-----------------------------------------------------------------------------
(* Properties of the layout *)

RECURSIVE NodesOf(_)
\* every node of a laid-out tree
NodesOf(node) ==
    {node} \cup UNION {NodesOf(node.children[i]) : i \in DOMAIN node.children}

LayoutDone == layoutRoot # NoLayout

\* the rectangles [x, x+width) x [y, y+height) of a and b share positive area
Intersects(a, b) ==
    /\ a.x < b.x + b.width
    /\ b.x < a.x + a.width
    /\ a.y < b.y + b.height
    /\ b.y < a.y + a.height

NoOverlapAmong(kids) ==
    \A i, j \in DOMAIN kids : i # j => ~Intersects(kids[i], kids[j])

\* C1: in the tree computeLayout produces, no two distinct children of any folder
\* have rectangles that intersect in positive area.
C1_NoChildrenOverlap ==
    LayoutDone => \A n \in NodesOf(layoutRoot) : NoOverlapAmong(n.children)

RECURSIVE maxHeightOf(_)
maxHeightOf(rs) == IF rs = <<>> THEN 0 ELSE Max(Head(rs).height, maxHeightOf(Tail(rs)))

\* C8: the extent pickBestPacking returns is at least as wide as the widest child
\* and at least as high as the highest child, and so is every folder's final box.
C8_ExtentCoversLargestChild ==
    /\ (rects # <<>> /\ cand > NumCandidates) =>
          /\ best.width >= maxWidthOf(rects)
          /\ best.height >= maxHeightOf(rects)
    /\ LayoutDone =>
          \A n \in NodesOf(layoutRoot) :
              n.children # <<>> =>
                  /\ n.width >= maxWidthOf(n.children)
                  /\ n.height >= maxHeightOf(n.children)

\* C8 witness: a finished pickBestPacking over children of different widths and
\* heights, boxed by computeLayout.
C8_Witness ==
    /\ LayoutDone
    /\ Len(rects) >= 3
    /\ \E i, j \in DOMAIN rects :
          rects[i].width > rects[j].width /\ rects[j].height > rects[i].height

TextLeaves == {n \in NodesOf(layoutRoot) : n.type = "file" /\ n.isText}

\* C9 (as claimed): the heights of any two text files are in the ratio of their
\* line counts.
C9_HeightProportional ==
    LayoutDone =>
        \A a, b \in TextLeaves : a.height * b.lineCount = b.height * a.lineCount

\* C9 (amended): a text file's height is its line count, but never less than
\* CONFIG.minHeight; the heights of two text files of at least minHeight lines are
\* in the ratio of their line counts.
C9_HeightIsLineCountWithFloor ==
    LayoutDone =>
        /\ \A a \in TextLeaves : a.height = Max(MinHeight, a.lineCount)
        /\ \A a, b \in TextLeaves :
              (a.lineCount >= MinHeight /\ b.lineCount >= MinHeight)
                  => a.height * b.lineCount = b.height * a.lineCount

\* C9 witness: a laid-out tree with a text file below the floor and two text files
\* of different line counts above it.
C9_Witness ==
    /\ LayoutDone
    /\ \E a, b, c \in TextLeaves :
          /\ a.lineCount < MinHeight
          /\ b.lineCount >= MinHeight
          /\ c.lineCount > b.lineCount

\* number of positions of s holding e
Occurrences(s, e) == Cardinality({i \in DOMAIN s : s[i] = e})

\* t holds the elements of s, each as often as s does
IsPermutation(s, t) ==
    /\ Len(s) = Len(t)
    /\ \A i \in DOMAIN s : Occurrences(t, s[i]) = Occurrences(s, s[i])

\* p is r moved to a position with x >= 0 and y >= 0, nothing else changed
PlacedFrom(p, r) ==
    /\ p.x >= 0
    /\ p.y >= 0
    /\ [p EXCEPT !.x = r.x, !.y = r.y] = r

\* C18: packing never fails.  At every point of every packMaxRects run the
\* rectangles placed so far are exactly the rectangles taken from the sorted
\* input so far, one placement per rectangle taken, each with its width, height
\* and content unchanged and with x >= 0 and y >= 0; the sorted input is a
\* permutation of the input; so when the loop has consumed the input every
\* input rectangle is placed exactly once.
C18_EveryRectPlacedOnce ==
    (rects # <<>>) =>
        /\ IsPermutation(rects, sortRects(rects))
        /\ Len(placed) + Len(sorted) = Len(rects)
        /\ \A i \in DOMAIN placed : PlacedFrom(placed[i], sortRects(rects)[i])
        /\ \A i \in DOMAIN sorted : sorted[i] = sortRects(rects)[Len(placed) + i]

\* a finished packing of MaxChildren rectangles in which a rectangle fitted no
\* free region and was placed in the region appended at y = totalHeight
C18_Witness ==
    /\ Len(rects) = MaxChildren
    /\ sorted = <<>>
    /\ Len(placed) = MaxChildren
    /\ \E i \in DOMAIN placed : placed[i].x = 0 /\ placed[i].y = totalHeightOf(rects)

\* the factors of the candidate widths, times 100, in the order tried
Factors100 == <<70, 85, 100, 120, 150, 200>>

RECURSIVE CandidatePackings(_)
\* the packings of the candidates 1..n
CandidatePackings(n) ==
    IF n = 0 THEN <<>>
    ELSE Append(CandidatePackings(n - 1), packMaxRects(rects, TargetOf(rects, n)))

\* the cost of a packing, times 50: 50 * |width - height| + (width * height - totalArea)
Cost50(packed) ==
    50 * Abs(packed.width - packed.height) + packed.width * packed.height
    - totalAreaOf(rects)

\* the first of the packings ps with the minimum cost
FirstMinimum(ps) ==
    CHOOSE c \in DOMAIN ps :
        \A o \in DOMAIN ps :
            (Cost50(ps[c]) < Cost50(ps[o])) \/ (Cost50(ps[c]) = Cost50(ps[o]) /\ c <= o)

\* a candidate has just been scored
CandidateScored == rects # <<>> /\ cand > 1 /\ (placed = <<>> \/ cand > NumCandidates)

\* C22: the candidates are packed in the order 0.7, 0.85, 1, 1.2, 1.5, 2 times
\* base with base^2 = max(maxWidth^2, totalArea); whenever a candidate has been
\* scored the best packing is the one of the first candidate, among those tried,
\* of minimum cost |width - height| + 0.02 * (width * height - totalArea).
C22_FirstMinimumCostReturned ==
    /\ Len(Factors100) = NumCandidates
    /\ \A c \in 1..NumCandidates :
           FactorSq[c][1] * 10000 = Factors100[c] * Factors100[c] * FactorSq[c][2]
    /\ CandidateScored =>
           LET ps == CandidatePackings(cand - 1)
               first == FirstMinimum(ps)
           IN /\ best # NoBest
              /\ best.children = ps[first].children
              /\ best.width = ps[first].width
              /\ best.height = ps[first].height
              /\ best.score = Cost50(ps[first])

\* all candidates are tried, the best one is not the first one tried, and a later
\* candidate reaches the same cost with another packing
C22_Witness ==
    /\ rects # <<>>
    /\ cand > NumCandidates
    /\ LET ps == CandidatePackings(NumCandidates)
           first == FirstMinimum(ps)
       IN /\ first > 1
          /\ \E o \in DOMAIN ps :
                 /\ o > first
                 /\ Cost50(ps[o]) = Cost50(ps[first])
                 /\ ps[o].children # best.children

\* the folders of the laid-out tree that have children
FoldersWithChildren == {f \in NodesOf(layoutRoot) : f.type = "folder" /\ f.children # <<>>}

\* the largest x + width, and y + height, of the rectangles in kids
FarRight(kids) == CHOOSE m \in {kids[i].x + kids[i].width : i \in DOMAIN kids} :
                      \A i \in DOMAIN kids : kids[i].x + kids[i].width <= m
FarBottom(kids) == CHOOSE m \in {kids[i].y + kids[i].height : i \in DOMAIN kids} :
                       \A i \in DOMAIN kids : kids[i].y + kids[i].height <= m

\* C23: a folder with children is its packing plus the padding on all sides and
\* the header band on top, and its children are the packed rectangles shifted by
\* (padding, padding + headerHeight): every child lies at least padding away from
\* the four edges and below the header band, and the packing's far sides are
\* exactly padding away from the folder's right and bottom edges.
C23_ChildrenInsidePaddedBox ==
    LayoutDone =>
        /\ \A f \in FoldersWithChildren :
               /\ f.width = FarRight(f.children) + Padding
               /\ f.height = FarBottom(f.children) + Padding
               /\ \A i \in DOMAIN f.children :
                      /\ Padding <= f.children[i].x
                      /\ f.children[i].x + f.children[i].width <= f.width - Padding
                      /\ Padding + HeaderHeight <= f.children[i].y
                      /\ f.children[i].y + f.children[i].height <= f.height - Padding
        /\ rects # <<>> =>
               /\ layoutRoot.width = best.width + 2 * Padding
               /\ layoutRoot.height = best.height + 2 * Padding + HeaderHeight
               /\ Len(layoutRoot.children) = Len(best.children)
               /\ \A i \in DOMAIN best.children :
                      /\ layoutRoot.children[i].x = best.children[i].x + Padding
                      /\ layoutRoot.children[i].y
                             = best.children[i].y + Padding + HeaderHeight
                      /\ layoutRoot.children[i].width = best.children[i].width
                      /\ layoutRoot.children[i].height = best.children[i].height

\* a laid-out root of MaxChildren children, one of them a folder with children of
\* its own, with a child in the top left corner of the content area
C23_Witness ==
    /\ LayoutDone
    /\ Len(layoutRoot.children) = MaxChildren
    /\ Cardinality(FoldersWithChildren) > 1
    /\ \E i \in DOMAIN layoutRoot.children :
           /\ layoutRoot.children[i].x = Padding
           /\ layoutRoot.children[i].y = Padding + HeaderHeight

\* the step-wise packing of the root agrees with computeLayout as an operator
LayoutAgrees == LayoutDone => layoutRoot = computeLayout(treeData)

-----------------------------------------------------------------------------
(* countLines: a read stream delivers the file as non-empty chunks to the     *)
(* 'data' handler, then 'end'.                                                *)

LF == 10
MaxFileLen == 4          \* bytes of the streamed file
Bytes == {LF, 97, 13}    \* "\n", "a", "\r"

RECURSIVE SeqsUpTo(_, _)
\* the sequences over S of length at most n
SeqsUpTo(S, n) ==
    IF n = 0 THEN {<<>>}
    ELSE LET shorter == SeqsUpTo(S, n - 1)
         IN shorter \cup {Append(q, x) : q \in {r \in shorter : Len(r) = n - 1}, x \in S}

RECURSIVE CountLF(_)
\* for (i...) if (buffer[i] === 10) lineCount++   -- the increments of one chunk
CountLF(chunk) ==
    IF chunk = <<>> THEN 0
    ELSE (IF Head(chunk) = LF THEN 1 ELSE 0) + CountLF(Tail(chunk))

\* mutant of LastByteOf: the first byte of the chunk is remembered
FirstByteOf(chunk) == chunk[1]

\* lastByte = buffer[buffer.length - 1]
LastByteOf(chunk) == chunk[Len(chunk)]

\* the 'data' handler on the handler state st = [lineCount, hasData, lastByte]
OnDataStep(st, chunk) ==
    [lineCount |-> st.lineCount + CountLF(chunk),
     hasData |-> TRUE,
     lastByte |-> LastByteOf(chunk)]

\* mutant of OnEndValue: the line after the last LF is not counted
OnEndValueNoTrailing(st) == st.lineCount

\* the 'end' handler: the value the promise resolves with
OnEndValue(st) ==
    IF st.hasData /\ st.lastByte # LF THEN st.lineCount + 1 ELSE st.lineCount

\* let lineCount = 0; let hasData = false; let lastByte = null
StreamStart == [lineCount |-> 0, hasData |-> FALSE, lastByte |-> -1]

StreamInit ==
    /\ fileBytes \in SeqsUpTo(Bytes, MaxFileLen)
    /\ streamPos = 0
    /\ lineCount = StreamStart.lineCount
    /\ hasData = StreamStart.hasData
    /\ lastByte = StreamStart.lastByte
    /\ streamChunks = 0
    /\ streamState = "open"

\* stream.on('data'): the next n bytes arrive as one chunk
OnData ==
    /\ streamState = "open"
    /\ streamPos < Len(fileBytes)
    /\ \E n \in 1..(Len(fileBytes) - streamPos) :
          LET chunk == SubSeq(fileBytes, streamPos + 1, streamPos + n)
              st == OnDataStep([lineCount |-> lineCount, hasData |-> hasData,
                                lastByte |-> lastByte], chunk)
          IN /\ lineCount' = st.lineCount
             /\ hasData' = st.hasData
             /\ lastByte' = st.lastByte
             /\ streamPos' = streamPos + n
    /\ streamChunks' = streamChunks + 1
    /\ UNCHANGED <<fileBytes, streamState>>

\* stream.on('end'): resolve(lineCount)
OnEnd ==
    /\ streamState = "open"
    /\ streamPos = Len(fileBytes)
    /\ lineCount' = OnEndValue([lineCount |-> lineCount, hasData |-> hasData,
                                lastByte |-> lastByte])
    /\ streamState' = "resolved"
    /\ UNCHANGED <<fileBytes, streamPos, hasData, lastByte, streamChunks>>

NumLF(bytes) == Cardinality({i \in DOMAIN bytes : bytes[i] = LF})

\* C4: countLines resolves with the number of LF bytes, plus one when the file is
\* non-empty and does not end with LF (0 for the empty file), however the bytes
\* were split into chunks.
C4_CountLines ==
    streamState = "resolved" =>
        lineCount = NumLF(fileBytes)
                    + (IF fileBytes # <<>> /\ fileBytes[Len(fileBytes)] # LF THEN 1 ELSE 0)

\* C4 witness: a file with an LF inside and no LF at its end, delivered in more
\* than one chunk, has been counted.
C4_Witness ==
    /\ streamState = "resolved"
    /\ streamChunks >= 2
    /\ NumLF(fileBytes) >= 1
    /\ fileBytes[Len(fileBytes)] # LF
    /\ fileBytes[1] = LF

-----------------------------------------------------------------------------
(* getBlameSegments: run-length encoding of the per-line author list *)

MaxAuthorsLen == 6       \* lines of the blamed file
AuthorNames == {"A", "B", "Unknown"}

NoSegments == <<[author |-> "null", lines |-> 0]>>

\* segments.push({ author: last, lines: count })
PushSegment(segs, last, count) == Append(segs, [author |-> last, lines |-> count])

\* mutant of RleStep: count is not reset when the author changes
RleStepNoReset(st, author) ==
    IF author = st.last
    THEN [st EXCEPT !.count = @ + 1]
    ELSE [segments |-> PushSegment(st.segments, st.last, st.count),
          last |-> author, count |-> st.count]

\* the body of "for (let i = 1; ...)" on st = [segments, last, count]
RleStep(st, author) ==
    IF author = st.last
    THEN [st EXCEPT !.count = @ + 1]
    ELSE [segments |-> PushSegment(st.segments, st.last, st.count),
          last |-> author, count |-> 1]

\* const segments = []; let last = authors[0]; let count = 1
RleStart(as) == [segments |-> <<>>, last |-> as[1], count |-> 1]

RECURSIVE RleFrom(_, _, _)
RleFrom(st, as, i) ==
    IF i > Len(as) \/ st.count < 0 THEN st ELSE RleFrom(RleStep(st, as[i]), as, i + 1)

\* the segments getBlameSegments returns for a per-line author list
SegmentsOf(as) ==
    IF Len(as) = 0 THEN NoSegments
    ELSE LET st == RleFrom(RleStart(as), as, 2)
         IN PushSegment(st.segments, st.last, st.count)

RleInit ==
    /\ authors \in SeqsUpTo(AuthorNames, MaxAuthorsLen)
    /\ rleI = 0
    /\ rleLast = ""
    /\ rleCount = 0
    /\ segments = <<>>
    /\ rleState = "idle"

\* if (authors.length === 0) return null
RleEmpty ==
    /\ rleState = "idle"
    /\ Len(authors) = 0
    /\ segments' = NoSegments
    /\ rleState' = "returned"
    /\ UNCHANGED <<authors, rleI, rleLast, rleCount>>

\* the initialisation before the loop
RleBegin ==
    /\ rleState = "idle"
    /\ Len(authors) > 0
    /\ segments' = RleStart(authors).segments
    /\ rleLast' = RleStart(authors).last
    /\ rleCount' = RleStart(authors).count
    /\ rleI' = 2
    /\ rleState' = "loop"
    /\ UNCHANGED authors

\* one loop iteration
RleIterate ==
    /\ rleState = "loop"
    /\ rleI <= Len(authors)
    /\ LET st == RleStep([segments |-> segments, last |-> rleLast, count |-> rleCount],
                         authors[rleI])
       IN /\ segments' = st.segments
          /\ rleLast' = st.last
          /\ rleCount' = st.count
    /\ rleI' = rleI + 1
    /\ UNCHANGED <<authors, rleState>>

\* the push after the loop and the return
RleReturn ==
    /\ rleState = "loop"
    /\ rleI > Len(authors)
    /\ segments' = PushSegment(segments, rleLast, rleCount)
    /\ rleState' = "returned"
    /\ UNCHANGED <<authors, rleI, rleLast, rleCount>>

RECURSIVE Expand(_)
\* the per-line author list a segment list stands for
Expand(segs) ==
    IF segs = <<>> THEN <<>>
    ELSE [i \in 1..Head(segs).lines |-> Head(segs).author] \o Expand(Tail(segs))

\* C3: for a non-empty author list the segments expand back to exactly the list,
\* every segment has lines >= 1, and adjacent segments have different authors.
C3_SegmentsAreMaximalRuns ==
    (rleState = "returned" /\ authors # <<>>) =>
        /\ \A i \in DOMAIN segments : segments[i].lines >= 1
        /\ Expand(segments) = authors
        /\ \A i \in 1..(Len(segments) - 1) : segments[i].author # segments[i + 1].author

\* C3 witness: the list [A,A,B,B,B,A] has been encoded as [(A,2),(B,3),(A,1)].
C3_Witness ==
    /\ rleState = "returned"
    /\ authors = <<"A", "A", "B", "B", "B", "A">>
    /\ segments = <<[author |-> "A", lines |-> 2], [author |-> "B", lines |-> 3],
                    [author |-> "A", lines |-> 1]>>

-----------------------------------------------------------------------------
(* buildFileTree, file branch: isTextFile and countLines on the file's bytes *)

NUL == 0
ProbeBytes == 8192       \* Buffer.alloc(8192)
HighWaterMark == 65536   \* chunk size of fs.createReadStream

\* isTextFile: no NUL byte among the first 8192 bytes
isTextFile(bytes) ==
    \A i \in 1..Min(Len(bytes), ProbeBytes) : bytes[i] # NUL

RECURSIVE FeedChunks(_, _)
\* the 'data' events of a stream over bytes, in chunks of the stream's size
FeedChunks(st, bytes) ==
    IF bytes = <<>> \/ st.lineCount < 0 THEN st
    ELSE FeedChunks(OnDataStep(st, SubSeq(bytes, 1, Min(Len(bytes), HighWaterMark))),
                    SubSeq(bytes, Min(Len(bytes), HighWaterMark) + 1, Len(bytes)))

\* the value countLines(filePath) resolves with
countLines(bytes) == OnEndValue(FeedChunks(StreamStart, bytes))

Undefined == -1
NoBlame == <<[author |-> "undefined", lines |-> 0]>>

\* the file node buildNode returns: isText, lineCount (undefined for non-text)
FileNodeOf(bytes) ==
    [isText |-> isTextFile(bytes),
     lineCount |-> IF isTextFile(bytes) THEN countLines(bytes) ELSE Undefined,
     blameSegments |-> NoBlame]

-----------------------------------------------------------------------------
(* The version-control backend: git blame --line-porcelain on a file          *)

RECURSIVE SplitLines(_, _)
\* the physical lines of a file: each LF ends a line, a non-empty rest is a line
SplitLines(bytes, cur) ==
    IF bytes = <<>> THEN (IF cur = <<>> THEN <<>> ELSE <<cur>>)
    ELSE IF Head(bytes) = LF
         THEN <<Append(cur, LF)>> \o SplitLines(Tail(bytes), <<>>)
         ELSE SplitLines(Tail(bytes), Append(cur, Head(bytes)))

\* lines the backend attributes
BlameLineCount(bytes) == Len(SplitLines(bytes, <<>>))

\* author names as the backend prints them after "author "
BackendAuthors == {"A", " A", "B", ""}

OtherLine == [kind |-> "other", text |-> ""]
AuthorLine(name) == [kind |-> "author", text |-> name]
ContentLine == [kind |-> "content", text |-> ""]

RECURSIVE PorcelainFrom(_, _)
PorcelainFrom(as, i) ==
    IF i > Len(as) THEN <<OtherLine>>
    ELSE <<OtherLine, AuthorLine(as[i]), OtherLine, ContentLine>> \o PorcelainFrom(as, i + 1)

\* stdout.split('\n') of a successful run: per line a header group with its
\* "author" line and the TAB-prefixed content line; the last element is empty
Porcelain(as) == PorcelainFrom(as, 1)

BlameFailed == <<[kind |-> "error", text |-> ""]>>

\* what execFileAsync('git', [... 'blame', '--line-porcelain' ...]) can give for a
\* file: a rejection, or the porcelain lines for some author of every line
BackendOutcomes(bytes) ==
    {BlameFailed} \cup {Porcelain(as) : as \in [1..BlameLineCount(bytes) -> BackendAuthors]}

-----------------------------------------------------------------------------
(* getBlameSegments: parsing of the porcelain lines *)

\* String.prototype.trim on the author names that occur
Trim(name) == IF name = " A" THEN "A" ELSE name

\* line.slice('author '.length).trim() || 'Unknown'
AuthorOf(text) == IF Trim(text) = "" THEN "Unknown" ELSE Trim(text)

\* the body of "for (const line of lines)" on st = [authors, currentAuthor]
ParseLine(st, line) ==
    IF line.kind = "author"
    THEN [st EXCEPT !.currentAuthor = AuthorOf(line.text)]
    ELSE IF line.kind = "content"
         THEN [st EXCEPT !.authors =
                   Append(@, IF st.currentAuthor = "" THEN "Unknown" ELSE st.currentAuthor)]
         ELSE st

RECURSIVE ParseFrom(_, _, _)
ParseFrom(st, lines, i) ==
    IF i > Len(lines) \/ Len(st.authors) < 0 THEN st
    ELSE ParseFrom(ParseLine(st, lines[i]), lines, i + 1)

\* const authors after the parsing loop
ParseAuthors(lines) == ParseFrom([authors |-> <<>>, currentAuthor |-> ""], lines, 1).authors

\* getBlameSegments(filePath, repoRoot) for an outcome of the backend call
getBlameSegments(outcome) ==
    IF outcome = BlameFailed THEN NoSegments ELSE SegmentsOf(ParseAuthors(outcome))

-----------------------------------------------------------------------------
(* getBlameSegments: the parsing loop over the lines of the backend's output, *)
(* one line at a time.  The output is a list of attribution records, one per  *)
(* line of the file; a record's header may or may not hold an "author" line.  *)

MaxRecords == 3          \* attribution records of the output

\* the author metadata of a record: no "author" line, or the text after "author "
NoAuthorLine == [present |-> FALSE, text |-> ""]
AuthorText(name) == [present |-> TRUE, text |-> name]

RecordAuthors == {NoAuthorLine} \cup {AuthorText(name) : name \in BackendAuthors}

RECURSIVE RecordLines(_, _)
\* stdout.split('\n') for the records rs
RecordLines(rs, i) ==
    IF i > Len(rs) THEN <<OtherLine>>
    ELSE <<OtherLine>>
         \o (IF rs[i].present THEN <<AuthorLine(rs[i].text)>> ELSE <<>>)
         \o <<OtherLine, ContentLine>> \o RecordLines(rs, i + 1)

ParseInit ==
    /\ pRecords \in SeqsUpTo(RecordAuthors, MaxRecords) \ {<<>>}
    /\ pNext = 1
    /\ pAuthors = <<>>
    /\ currentAuthor = ""
    /\ pPc = "loop"

\* one iteration of "for (const line of lines)"
ParseStep ==
    /\ pPc = "loop"
    /\ pNext <= Len(RecordLines(pRecords, 1))
    /\ LET st == ParseLine([authors |-> pAuthors, currentAuthor |-> currentAuthor],
                           RecordLines(pRecords, 1)[pNext])
       IN /\ pAuthors' = st.authors
          /\ currentAuthor' = st.currentAuthor
    /\ pNext' = pNext + 1
    /\ UNCHANGED <<pRecords, pPc>>

\* the loop has gone through the lines
ParseEnd ==
    /\ pPc = "loop"
    /\ pNext > Len(RecordLines(pRecords, 1))
    /\ pPc' = "parsed"
    /\ UNCHANGED <<pRecords, pNext, pAuthors, currentAuthor>>

\* the parsing loop agrees with ParseAuthors
ParseAgrees == pPc = "parsed" => pAuthors = ParseAuthors(RecordLines(pRecords, 1))

\* the record carries no author: no "author" line, or nothing but blanks after it
CarriesNoAuthor(r) == ~r.present \/ Trim(r.text) = ""

\* C24: when the output is parsed, every line whose own record carries no author
\* is attributed to "Unknown", whatever the records before it say.
C24_NoAuthorIsUnknown ==
    pPc = "parsed" =>
        /\ Len(pAuthors) = Len(pRecords)
        /\ \A k \in DOMAIN pRecords :
               CarriesNoAuthor(pRecords[k]) => pAuthors[k] = "Unknown"

-----------------------------------------------------------------------------
(* addBlameInfo *)

MaxBlameFileLen == 2     \* bytes of a file of the blamed tree

FileN(p) == [type |-> "file", path |-> p, children |-> <<>>]
FolderN(p, kids) == [type |-> "folder", path |-> p, children |-> kids]

\* the shapes of the built tree
TreeShapes ==
    {FolderN("/r", <<FileN("/r/a")>>),
     FolderN("/r", <<FileN("/r/a"), FileN("/r/b")>>),
     FolderN("/r", <<FolderN("/r/d", <<FileN("/r/d/a")>>), FileN("/r/b")>>),
     FolderN("/r", <<FolderN("/r/d", <<>>)>>)}

RECURSIVE FilePathsOf(_)
FilePathsOf(node) ==
    IF node.type = "file" THEN {node.path}
    ELSE UNION {FilePathsOf(node.children[i]) : i \in DOMAIN node.children}

FileContents == SeqsUpTo({LF, 97}, MaxBlameFileLen) \cup {<<NUL>>}

\* mutant of CollectFrom: the children of a folder are not pushed
CollectFromNoDescent(stack, files) ==
    IF stack = <<>> THEN files
    ELSE IF stack[Len(stack)].type = "file" THEN Append(files, stack[Len(stack)].path)
    ELSE files

RECURSIVE CollectFrom(_, _)
\* the loop of collectFileNodes on (stack, files): pop the last node; a file is
\* collected, a folder's children are pushed in order
CollectFrom(stack, files) ==
    IF stack = <<>> \/ Len(files) < 0 THEN files
    ELSE LET node == stack[Len(stack)]
             rest == SubSeq(stack, 1, Len(stack) - 1)
         IN IF node.type = "file"
            THEN CollectFrom(rest, Append(files, node.path))
            ELSE CollectFrom(rest \o node.children, files)

collectFileNodes(root) == CollectFrom(<<root>>, <<>>)

Event(kind, path, ok) == [kind |-> kind, path |-> path, ok |-> ok]

\* mutant of AttachSegments: the result is stored whatever it is
AttachAlways(node, segs) == [node EXCEPT !.blameSegments = segs]

\* if (segments && segments.length > 0) file.blameSegments = segments
AttachSegments(node, segs) ==
    IF segs # NoSegments /\ Len(segs) > 0 THEN [node EXCEPT !.blameSegments = segs]
    ELSE node

BlameInit ==
    /\ bTree \in TreeShapes
    /\ disk \in [FilePathsOf(bTree) -> FileContents]
    /\ bNodes = [p \in FilePathsOf(bTree) |-> FileNodeOf(disk[p])]
    /\ bFiles = <<>>
    /\ bDone = 0
    /\ bProgress = <<>>
    /\ bEvents = <<>>
    /\ bPc = "start"

\* const files = collectFileNodes(root); const total = files.length; let done = 0
BlameStart ==
    /\ bPc = "start"
    /\ bFiles' = collectFileNodes(bTree)
    /\ bDone' = 0
    /\ bPc' = "loop"
    /\ UNCHANGED <<disk, bTree, bNodes, bProgress, bEvents>>

\* the head of a loop iteration: done++, onProgress, skip of a non-text file, and
\* the backend call for a text file
BlameNextFile ==
    /\ bPc = "loop"
    /\ bDone < Len(bFiles)
    /\ bDone' = bDone + 1
    /\ bProgress' = Append(bProgress, [done |-> bDone + 1, total |-> Len(bFiles),
                                       path |-> bFiles[bDone + 1]])
    /\ bEvents' = bEvents \o <<Event("progress", bFiles[bDone + 1], TRUE)>>
                   \o (IF bNodes[bFiles[bDone + 1]].isText
                       THEN <<Event("query", bFiles[bDone + 1], TRUE)>> ELSE <<>>)
    /\ bPc' = IF bNodes[bFiles[bDone + 1]].isText THEN "await" ELSE "loop"
    /\ UNCHANGED <<disk, bTree, bNodes, bFiles>>

\* the backend call settles: segments are attached when there are any
BlameResult ==
    /\ bPc = "await"
    /\ \E outcome \in BackendOutcomes(disk[bFiles[bDone]]) :
          LET file == bFiles[bDone]
              segs == getBlameSegments(outcome)
              node == AttachSegments(bNodes[file], segs)
          IN /\ bNodes' = [bNodes EXCEPT ![file] = node]
             /\ bEvents' = bEvents
                    \o <<Event("settled", file,
                               outcome # BlameFailed /\ BlameLineCount(disk[file]) > 0)>>
                    \o (IF node # bNodes[file] THEN <<Event("write", file, TRUE)>> ELSE <<>>)
    /\ bPc' = "loop"
    /\ UNCHANGED <<disk, bTree, bFiles, bDone, bProgress>>

\* the loop ends and addBlameInfo resolves
BlameFinish ==
    /\ bPc = "loop"
    /\ bDone = Len(bFiles)
    /\ bPc' = "finished"
    /\ UNCHANGED <<disk, bTree, bNodes, bFiles, bDone, bProgress, bEvents>>

RECURSIVE SumLines(_)
SumLines(segs) == IF segs = <<>> THEN 0 ELSE Head(segs).lines + SumLines(Tail(segs))

\* C2: every file node that carries blameSegments has a recorded lineCount equal to
\* the sum of its segments' lines.
C2_SegmentsSumToLineCount ==
    \A p \in DOMAIN bNodes :
        bNodes[p].blameSegments # NoBlame =>
            SumLines(bNodes[p].blameSegments) = bNodes[p].lineCount

\* C2 witness: addBlameInfo has finished on a tree with a file of two lines without
\* a final LF that carries two segments.
C2_Witness ==
    /\ bPc = "finished"
    /\ \E p \in DOMAIN bNodes :
          /\ disk[p] = <<LF, 97>>
          /\ bNodes[p].blameSegments # NoBlame
          /\ Len(bNodes[p].blameSegments) = 2

-----------------------------------------------------------------------------
(* Properties of addBlameInfo: failures, visits, progress *)

EventsOf(kind, path) == {i \in DOMAIN bEvents : bEvents[i].kind = kind /\ bEvents[i].path = path}

\* C14: a backend query that fails or gives no output leaves its file without
\* blameSegments, a query that gives authors annotates its file, a non-text file is
\* never queried, and when addBlameInfo has finished every text file was queried once.
C14_FailureLeavesFileUnannotated ==
    /\ \A i \in DOMAIN bEvents :
          bEvents[i].kind = "settled" =>
              (bEvents[i].ok <=> bNodes[bEvents[i].path].blameSegments # NoBlame)
    /\ \A p \in DOMAIN bNodes :
          /\ ~bNodes[p].isText => EventsOf("query", p) = {}
          /\ (bPc = "finished" /\ bNodes[p].isText) =>
                 /\ Cardinality(EventsOf("query", p)) = 1
                 /\ Cardinality(EventsOf("settled", p)) = 1

\* C14 witness: addBlameInfo has finished; the query of one file failed and a file
\* queried after it carries segments.
C14_Witness ==
    /\ bPc = "finished"
    /\ \E i, j \in DOMAIN bEvents :
          /\ i < j
          /\ bEvents[i].kind = "settled" /\ ~bEvents[i].ok
          /\ BlameLineCount(disk[bEvents[i].path]) > 0
          /\ bEvents[j].kind = "settled" /\ bEvents[j].ok
          /\ bNodes[bEvents[i].path].blameSegments = NoBlame
          /\ bNodes[bEvents[j].path].blameSegments # NoBlame

\* the index of the last onProgress call made before event i
LastProgressBefore(i) ==
    CHOOSE k \in 0..i : /\ k = 0 \/ bEvents[k].kind = "progress"
                        /\ \A l \in (k + 1)..(i - 1) : bEvents[l].kind # "progress"

\* C19: the onProgress calls made so far have done = 1, 2, ..., total = the number of
\* file nodes of the tree, and distinct file nodes as paths; when addBlameInfo has
\* finished there was one call for every file node; blameSegments of a node is
\* written at most once, and only between the onProgress call for that node and the
\* next one.
C19_EveryFileVisitedOnce ==
    /\ \A i \in DOMAIN bProgress :
          /\ bProgress[i].done = i
          /\ bProgress[i].total = Cardinality(FilePathsOf(bTree))
          /\ bProgress[i].path \in FilePathsOf(bTree)
          /\ \A j \in DOMAIN bProgress : bProgress[j].path = bProgress[i].path => j = i
    /\ bPc = "finished" =>
          {bProgress[i].path : i \in DOMAIN bProgress} = FilePathsOf(bTree)
    /\ \A p \in DOMAIN bNodes : Cardinality(EventsOf("write", p)) <= 1
    /\ \A i \in DOMAIN bEvents :
          bEvents[i].kind = "write" =>
              /\ LastProgressBefore(i) > 0
              /\ bEvents[LastProgressBefore(i)].path = bEvents[i].path

\* C19 witness: addBlameInfo has finished on the tree with a file in a sub-folder and
\* a file in the root; both were reported and the one in the sub-folder was written.
C19_Witness ==
    /\ bPc = "finished"
    /\ FilePathsOf(bTree) = {"/r/d/a", "/r/b"}
    /\ Len(bProgress) = 2
    /\ EventsOf("write", "/r/d/a") # {}

\* C20: every onProgress call for a text file comes after the query for that file
\* has settled, and when done = total is reported every text file has been settled.
C20_ProgressAfterAttribution ==
    \A i \in DOMAIN bEvents :
        bEvents[i].kind = "progress" =>
            /\ bNodes[bEvents[i].path].isText =>
                   \E j \in 1..(i - 1) :
                       bEvents[j].kind = "settled" /\ bEvents[j].path = bEvents[i].path
            /\ Cardinality({k \in 1..i : bEvents[k].kind = "progress"}) = Len(bFiles) =>
                   \A p \in DOMAIN bNodes :
                       bNodes[p].isText =>
                           \E j \in 1..(i - 1) :
                               bEvents[j].kind = "settled" /\ bEvents[j].path = p

-----------------------------------------------------------------------------
(* Paths and names of the walked tree                                         *)
(* A name is the sequence of its characters; a path is the sequence of the    *)
(* names below the root (the root is <<>>).                                   *)

GitName == <<".", "g", "i", "t">>
IgnoreFileName == <<".", "g", "i", "t", "i", "g", "n", "o", "r", "e">>
NameD == <<"d">>
NameE == <<"e">>
NameS == <<"s">>
NameAC == <<"a", ".", "c">>
NameDotsBC == <<".", ".", "b", ".", "c">>

\* path.join(currentPath, entry)
Join(path, entry) == Append(path, entry)

\* path.basename(currentPath)
Basename(path) == path[Len(path)]

IsPrefix(a, b) == Len(a) <= Len(b) /\ SubSeq(b, 1, Len(a)) = a

RECURSIVE CommonLen(_, _)
CommonLen(a, b) ==
    IF a = <<>> \/ b = <<>> \/ Head(a) # Head(b) THEN 0
    ELSE 1 + CommonLen(Tail(a), Tail(b))

DotDot == <<".", ".">>

\* path.relative(base, absPath): one ".." for every name of base that is not shared,
\* then the names of absPath that are not shared
Relative(base, absPath) ==
    LET c == CommonLen(base, absPath)
    IN [i \in 1..(Len(base) - c) |-> DotDot] \o SubSeq(absPath, c + 1, Len(absPath))

\* relativePath.startsWith('..') on the joined string
StartsWithDotDot(rel) ==
    /\ rel # <<>>
    /\ Len(rel[1]) >= 2
    /\ rel[1][1] = "."
    /\ rel[1][2] = "."

-----------------------------------------------------------------------------
(* The matcher of the 'ignore' package, for patterns without a '/' inside:    *)
(* a rule is [neg, glob, dirOnly] for a line "glob", "!glob", "glob/"         *)

Rule(neg, glob, dirOnly) == [neg |-> neg, glob |-> glob, dirOnly |-> dirOnly]

RECURSIVE GlobMatch(_, _)
\* the pattern's regular expression on one name: "*" is any run of characters
GlobMatch(glob, name) ==
    IF glob = <<>> THEN name = <<>>
    ELSE IF Head(glob) = "*"
         THEN \/ GlobMatch(Tail(glob), name)
              \/ name # <<>> /\ GlobMatch(glob, Tail(name))
         ELSE name # <<>> /\ Head(name) = Head(glob) /\ GlobMatch(Tail(glob), Tail(name))

\* a rule matches the first k names of rel when its glob matches the k-th name; a
\* "glob/" rule only when that prefix is a directory (it ends in '/')
RuleMatches(rule, rel, k, isDir) ==
    /\ GlobMatch(rule.glob, rel[k])
    /\ rule.dirOnly => (k < Len(rel) \/ isDir)

NoVerdict == [ignored |-> FALSE, unignored |-> FALSE]

RECURSIVE RulesTest(_, _, _, _, _, _)
\* the rules in order: the last matching rule sets ignored / unignored
RulesTest(rules, i, acc, rel, k, isDir) ==
    IF i > Len(rules) \/ (acc.ignored /\ acc.unignored) THEN acc
    ELSE RulesTest(rules, i + 1,
                   IF RuleMatches(rules[i], rel, k, isDir)
                   THEN [ignored |-> ~rules[i].neg, unignored |-> rules[i].neg]
                   ELSE acc,
                   rel, k, isDir)

RECURSIVE TestPrefix(_, _, _, _)
\* the parent directories first: a path below an ignored directory is ignored
TestPrefix(rules, rel, k, isDir) ==
    IF k = 1 THEN RulesTest(rules, 1, NoVerdict, rel, 1, isDir)
    ELSE LET parent == TestPrefix(rules, rel, k - 1, isDir)
         IN IF parent.ignored THEN parent
            ELSE RulesTest(rules, 1, NoVerdict, rel, k, isDir)

\* matcher.test(relativePath) for a relative path of at least one name
MatcherTest(rules, rel, isDir) == TestPrefix(rules, rel, Len(rel), isDir)

-----------------------------------------------------------------------------
(* loadRootIgnore, loadLocalIgnore, shouldIgnorePath *)

NoFile == <<[neg |-> FALSE, glob |-> <<>>, dirOnly |-> FALSE]>>

\* the built-in exclusions added before the root ignore file
DefaultRules ==
    <<Rule(FALSE, GitName, FALSE),
      Rule(FALSE, <<"n","o","d","e","_","m","o","d","u","l","e","s">>, FALSE),
      Rule(FALSE, <<".","v","s","c","o","d","e">>, FALSE),
      Rule(FALSE, <<"p","n","p","m","-","l","o","c","k",".","y","a","m","l">>, FALSE),
      Rule(FALSE, <<"y","a","r","n",".","l","o","c","k">>, FALSE),
      Rule(FALSE, <<"p","a","c","k","a","g","e","-","l","o","c","k",".","j","s","o","n">>, FALSE)>>

IgnoreEntry(base, rules) == [base |-> base, matcher |-> rules]

\* mutant of loadRootIgnore: the root matcher also holds the rules of directory d
loadRootIgnoreWithNested(fs) ==
    IgnoreEntry(<<>>, DefaultRules
                      \o (IF fs.rules[<<>>] = NoFile THEN <<>> ELSE fs.rules[<<>>])
                      \o (IF fs.rules[<<NameD>>] = NoFile THEN <<>> ELSE fs.rules[<<NameD>>]))

\* loadRootIgnore(rootPath): the defaults, then the root ignore file if it can be read
loadRootIgnore(fs) ==
    IgnoreEntry(<<>>, DefaultRules \o (IF fs.rules[<<>>] = NoFile THEN <<>> ELSE fs.rules[<<>>]))

\* loadLocalIgnore(dirPath): the matcher of the directory's own file, or null (NoFile)
loadLocalIgnore(fs, dirPath) == fs.rules[dirPath]

\* nextStack of buildNode
NextStack(fs, dirPath, ignoreStack) ==
    IF loadLocalIgnore(fs, dirPath) = NoFile THEN ignoreStack
    ELSE Append(ignoreStack, IgnoreEntry(dirPath, loadLocalIgnore(fs, dirPath)))

\* the body of "for (const entry of stack)"
EntryStep(ignored, entry, absPath, isDir) ==
    IF StartsWithDotDot(Relative(entry.base, absPath)) THEN ignored
    ELSE LET result == MatcherTest(entry.matcher, Relative(entry.base, absPath), isDir)
         IN IF result.unignored THEN FALSE
            ELSE IF result.ignored THEN TRUE
            ELSE ignored

RECURSIVE ShouldIgnoreFrom(_, _, _, _, _)
ShouldIgnoreFrom(absPath, isDir, stack, i, ignored) ==
    IF i > Len(stack) THEN ignored
    ELSE ShouldIgnoreFrom(absPath, isDir, stack, i + 1,
                          EntryStep(ignored, stack[i], absPath, isDir))

\* shouldIgnorePath(absPath, isDir, stack), for paths other than an entry's base
shouldIgnorePath(absPath, isDir, stack) == ShouldIgnoreFrom(absPath, isDir, stack, 1, FALSE)

-----------------------------------------------------------------------------
(* buildFileTree as a function of the working tree                            *)
(* fs = [dirs, files: sets of paths, rules: directory -> rules of its ignore  *)
(* file or NoFile, bytes: file -> content]                                    *)

Collation ==
    <<".", "a", "b", "c", "d", "e", "f", "g", "h", "i", "j", "k", "l", "m",
      "n", "o", "p", "q", "r", "s", "t", "u", "v", "w", "x", "y", "z">>

CharRank(ch) == CHOOSE i \in 1..Len(Collation) : Collation[i] = ch

RECURSIVE NameLess(_, _)
\* a.name.localeCompare(b.name) < 0 on names of lower-case letters and '.'
NameLess(a, b) ==
    IF b = <<>> THEN FALSE
    ELSE IF a = <<>> THEN TRUE
    ELSE IF Head(a) # Head(b) THEN CharRank(Head(a)) < CharRank(Head(b))
    ELSE NameLess(Tail(a), Tail(b))

\* the names fs.promises.readdir(dirPath) lists, the ignore file included
EntryNames(fs, dirPath) ==
    {Basename(q) : q \in {r \in fs.dirs \cup fs.files :
                             Len(r) = Len(dirPath) + 1 /\ IsPrefix(dirPath, r)}}
    \cup (IF fs.rules[dirPath] = NoFile THEN {} ELSE {IgnoreFileName})

RECURSIVE NamesInOrder(_)
NamesInOrder(names) ==
    IF names = {} THEN <<>>
    ELSE LET first == CHOOSE n \in names : \A o \in names \ {n} : NameLess(n, o)
         IN <<first>> \o NamesInOrder(names \ {first})

\* the order in which readdir lists them
Readdir(fs, dirPath) == NamesInOrder(EntryNames(fs, dirPath))

\* the bytes of a file; an ignore file holds one line per rule
BytesOf(fs, filePath) ==
    IF Basename(filePath) = IgnoreFileName
    THEN LET rules == fs.rules[SubSeq(filePath, 1, Len(filePath) - 1)]
         IN [i \in 1..(2 * Len(rules)) |-> IF i % 2 = 0 THEN LF ELSE 97]
    ELSE fs.bytes[filePath]

Null == [type |-> "null", path |-> <<>>, isText |-> FALSE, lineCount |-> Undefined,
         children |-> <<>>]

\* the file node of buildNode
WFile(filePath, bytes) ==
    [type |-> "file", path |-> filePath, isText |-> FileNodeOf(bytes).isText,
     lineCount |-> FileNodeOf(bytes).lineCount, children |-> <<>>]

\* the folder node of buildNode
WFolder(dirPath, kids) ==
    [type |-> "folder", path |-> dirPath, isText |-> FALSE, lineCount |-> Undefined,
     children |-> kids]

\* mutant of ChildBefore: the type of the nodes is not looked at
ChildBeforeByNameOnly(a, b) == NameLess(Basename(a.path), Basename(b.path))

\* the comparator of children.sort: folders first, then by name
ChildBefore(a, b) ==
    IF a.type # b.type THEN a.type = "folder"
    ELSE NameLess(Basename(a.path), Basename(b.path))

RECURSIVE InsertChild(_, _)
InsertChild(kids, n) ==
    IF kids = <<>> THEN <<n>>
    ELSE IF ChildBefore(n, Head(kids)) THEN <<n>> \o kids
    ELSE <<Head(kids)>> \o InsertChild(Tail(kids), n)

RECURSIVE SortChildren(_)
\* children.sort(...): a stable sort
SortChildren(kids) ==
    IF kids = <<>> THEN <<>>
    ELSE InsertChild(SortChildren(SubSeq(kids, 1, Len(kids) - 1)), kids[Len(kids)])

RECURSIVE buildNode(_, _, _)
RECURSIVE BuildChildren(_, _, _, _)
\* buildNode(currentPath, relativePath, ignoreStack) when every stat and readdir succeeds
buildNode(fs, currentPath, ignoreStack) ==
    IF currentPath \in fs.dirs
    THEN IF currentPath # <<>> /\ shouldIgnorePath(currentPath, TRUE, ignoreStack)
         THEN Null
         ELSE WFolder(currentPath,
                      SortChildren(BuildChildren(fs, currentPath,
                                                 NextStack(fs, currentPath, ignoreStack),
                                                 Readdir(fs, currentPath))))
    ELSE IF shouldIgnorePath(currentPath, FALSE, ignoreStack)
         THEN Null
         ELSE WFile(currentPath, BytesOf(fs, currentPath))

\* the loop "for (const entry of entries)"
BuildChildren(fs, currentPath, nextStack, entries) ==
    IF entries = <<>> THEN <<>>
    ELSE LET childNode == buildNode(fs, Join(currentPath, Head(entries)), nextStack)
         IN (IF childNode = Null THEN <<>> ELSE <<childNode>>)
            \o BuildChildren(fs, currentPath, nextStack, Tail(entries))

\* isGitRepository: a .git directory or file in the root
isGitRepository(fs) == <<GitName>> \in fs.dirs \cup fs.files

buildFileTree(fs) ==
    IF ~isGitRepository(fs) THEN Null
    ELSE buildNode(fs, <<>>, <<loadRootIgnore(fs)>>)

-----------------------------------------------------------------------------
(* buildNode on one directory: readdir lists the entries in an order of its   *)
(* own, the loop awaits buildNode of each entry in turn and pushes the nodes  *)
(* that are not null, then children.sort runs.                                *)

MaxEntries == 3          \* entries of the listed directory

DirNames == {NameD, NameE, NameS, NameAC, NameDotsBC}

\* the sequences that list every element of S once
Orderings(S) ==
    {o \in [1..Cardinality(S) -> S] : \A i, j \in 1..Cardinality(S) : i # j => o[i] # o[j]}

\* what buildNode returns for an entry: a folder, a file, or null for an ignored one
DirChild(name, isDir, kept) ==
    IF ~kept THEN Null
    ELSE IF isDir THEN WFolder(<<name>>, <<>>)
    ELSE WFile(<<name>>, <<97, LF>>)

\* the listings of a directory: names, what each one is, and the order readdir gives
DirListings ==
    UNION {{[i \in 1..Cardinality(N) |-> DirChild(o[i], isDir[o[i]], kept[o[i]])] :
               o \in Orderings(N), isDir \in [N -> BOOLEAN], kept \in [N -> BOOLEAN]}
           : N \in {M \in SUBSET DirNames : Cardinality(M) \in 1..MaxEntries}}

DirInit ==
    /\ dEntries \in DirListings
    /\ dChildren = <<>>
    /\ dNext = 1
    /\ dPc = "loop"

\* one iteration of "for (const entry of entries)"
DirPush ==
    /\ dPc = "loop"
    /\ dNext <= Len(dEntries)
    /\ dChildren' = IF dEntries[dNext] = Null THEN dChildren
                    ELSE Append(dChildren, dEntries[dNext])
    /\ dNext' = dNext + 1
    /\ UNCHANGED <<dEntries, dPc>>

\* children.sort(...) and the return of the folder node
DirSort ==
    /\ dPc = "loop"
    /\ dNext > Len(dEntries)
    /\ dChildren' = SortChildren(dChildren)
    /\ dPc' = "returned"
    /\ UNCHANGED <<dEntries, dNext>>

\* the nodes of a list, as a set
NodeSet(kids) == {kids[i] : i \in DOMAIN kids}

\* the nodes pushed when the entries are listed in ascending order of their names
PushedInNameOrder(nodes) ==
    LET names == NamesInOrder({Basename(n.path) : n \in nodes})
    IN [i \in 1..Len(names) |-> CHOOSE n \in nodes : Basename(n.path) = names[i]]

\* C21: the children of a returned folder are ordered folders first and, within
\* each kind, ascending by name, and the list is the same whatever the order in
\* which readdir listed the entries: it is the list obtained from the listing in
\* ascending name order, and it holds exactly the entries that gave a node.
C21_ChildrenOrderedWhateverTheListing ==
    dPc = "returned" =>
        /\ \A i, j \in DOMAIN dChildren :
               i < j =>
                   /\ dChildren[i].type = "file" => dChildren[j].type = "file"
                   /\ dChildren[i].type = dChildren[j].type =>
                          NameLess(Basename(dChildren[i].path), Basename(dChildren[j].path))
        /\ NodeSet(dChildren) = NodeSet(dEntries) \ {Null}
        /\ dChildren = SortChildren(PushedInNameOrder(NodeSet(dEntries) \ {Null}))

\* a directory of MaxEntries kept entries was listed with a file first and a folder
\* last, and has been returned
C21_Witness ==
    /\ dPc = "returned"
    /\ Len(dChildren) = MaxEntries
    /\ dEntries[1].type = "file"
    /\ dEntries[Len(dEntries)].type = "folder"
    /\ dChildren[1].type = "folder"

-----------------------------------------------------------------------------
(* buildFileTree as a walk: one step per entry of a directory *)

MaxRules == 2            \* lines of an ignore file

GlobAnyC == <<"*", ".", "c">>

\* the lines an ignore file is written with: "*.c", "!*.c", "s/"
Patterns == {Rule(FALSE, GlobAnyC, FALSE), Rule(TRUE, GlobAnyC, FALSE), Rule(FALSE, NameS, TRUE)}

RuleLists == SeqsUpTo(Patterns, MaxRules) \ {<<>>}

TreeDirs == {<<>>, <<NameD>>, <<NameD, NameS>>, <<NameE>>}
TreeFiles == {<<NameAC>>, <<NameD, NameAC>>, <<NameD, NameDotsBC>>,
              <<NameD, NameS, NameAC>>, <<NameE, NameAC>>}

\* the ignore files the root is given
RootRuleLists ==
    {<<Rule(FALSE, GlobAnyC, FALSE)>>, <<Rule(FALSE, NameS, TRUE)>>,
     <<Rule(FALSE, GlobAnyC, FALSE), Rule(FALSE, NameS, TRUE)>>}

Tree(git, r0, rd, rs, re) ==
    [dirs |-> TreeDirs \cup (IF git THEN {<<GitName>>} ELSE {}),
     files |-> TreeFiles,
     rules |-> (<<>> :> r0) @@ (<<NameD>> :> rd) @@ (<<NameD, NameS>> :> rs)
               @@ (<<NameE>> :> re) @@ (<<GitName>> :> NoFile),
     bytes |-> [f \in TreeFiles |-> <<97, LF>>]]

\* the working trees walked: a fixed set of directories and files, with or without
\* an ignore file in each directory; one of them is not a repository
WorkingTrees ==
    {Tree(TRUE, r0, rd, rs, re) :
        r0 \in RootRuleLists \cup {NoFile},
        rd \in RuleLists \cup {NoFile},
        rs \in {NoFile, <<Rule(TRUE, GlobAnyC, FALSE)>>},
        re \in {NoFile, <<Rule(FALSE, GlobAnyC, FALSE)>>, <<Rule(TRUE, GlobAnyC, FALSE)>>}}
    \cup {Tree(FALSE, NoFile, NoFile, NoFile, NoFile)}

Pending == [Null EXCEPT !.type = "pending"]

\* buildFileTree's promise rejected
Rejected == [Null EXCEPT !.type = "rejected"]

NoFault == [path |-> <<>>, kind |-> "none"]
Fault(path, kind) == [path |-> path, kind |-> kind]

WalkInit ==
    /\ fsys \in WorkingTrees
    /\ wFrames = <<>>
    /\ wResult = Pending
    /\ wPc = "start"
    /\ wFault = NoFault

Frame(dirPath, stack, todo) ==
    [path |-> dirPath, stack |-> stack, todo |-> todo, children |-> <<>>]

Top == wFrames[Len(wFrames)]
TopEntry == Join(Top.path, Head(Top.todo))
PopEntry == [wFrames EXCEPT ![Len(wFrames)].todo = Tail(@)]

\* buildFileTree outside a repository: resolves with null
WalkNotGit ==
    /\ wPc = "start"
    /\ ~isGitRepository(fsys)
    /\ wResult' = Null
    /\ wPc' = "done"
    /\ UNCHANGED <<fsys, wFrames, wFault>>

\* loadRootIgnore, then buildNode(rootPath) up to its readdir
WalkStart ==
    /\ wPc = "start"
    /\ isGitRepository(fsys)
    /\ wFrames' = <<Frame(<<>>, NextStack(fsys, <<>>, <<loadRootIgnore(fsys)>>),
                          Readdir(fsys, <<>>))>>
    /\ wPc' = "walk"
    /\ UNCHANGED <<fsys, wResult, wFault>>

\* buildNode on an entry that shouldIgnorePath excludes: returns null
WalkIgnored ==
    /\ wPc = "walk"
    /\ Top.todo # <<>>
    /\ shouldIgnorePath(TopEntry, TopEntry \in fsys.dirs, Top.stack)
    /\ wFrames' = PopEntry
    /\ UNCHANGED <<fsys, wResult, wPc, wFault>>

\* buildNode on a directory that is kept, up to its readdir
WalkEnterDir ==
    /\ wPc = "walk"
    /\ Top.todo # <<>>
    /\ TopEntry \in fsys.dirs
    /\ ~shouldIgnorePath(TopEntry, TRUE, Top.stack)
    /\ wFrames' = Append(PopEntry,
                         Frame(TopEntry, NextStack(fsys, TopEntry, Top.stack),
                               Readdir(fsys, TopEntry)))
    /\ UNCHANGED <<fsys, wResult, wPc, wFault>>

\* buildNode on a file that is kept: the file node is pushed to children
WalkFile ==
    /\ wPc = "walk"
    /\ Top.todo # <<>>
    /\ TopEntry \notin fsys.dirs
    /\ ~shouldIgnorePath(TopEntry, FALSE, Top.stack)
    /\ wFrames' = [PopEntry EXCEPT ![Len(wFrames)].children =
                       Append(@, WFile(TopEntry, BytesOf(fsys, TopEntry)))]
    /\ UNCHANGED <<fsys, wResult, wPc, wFault>>

\* the entries of a directory are done: sort, return the folder node to the caller
WalkLeaveDir ==
    /\ wPc = "walk"
    /\ Top.todo = <<>>
    /\ LET node == WFolder(Top.path, SortChildren(Top.children))
       IN IF Len(wFrames) = 1
          THEN /\ wResult' = node
               /\ wFrames' = <<>>
               /\ wPc' = "done"
          ELSE /\ wFrames' = [SubSeq(wFrames, 1, Len(wFrames) - 1)
                                 EXCEPT ![Len(wFrames) - 1].children = Append(@, node)]
               /\ UNCHANGED <<wResult, wPc>>
    /\ UNCHANGED <<fsys, wFault>>

\* fs.promises.stat(currentPath) throws for an entry: buildNode returns null
WalkStatFails ==
    /\ wPc = "walk"
    /\ wFault = NoFault
    /\ Top.todo # <<>>
    /\ wFault' = Fault(TopEntry, "stat")
    /\ wFrames' = PopEntry
    /\ UNCHANGED <<fsys, wResult, wPc>>

\* fs.promises.readdir(currentPath) throws for a kept directory: buildNode returns null
WalkReaddirFails ==
    /\ wPc = "walk"
    /\ wFault = NoFault
    /\ Top.todo # <<>>
    /\ TopEntry \in fsys.dirs
    /\ ~shouldIgnorePath(TopEntry, TRUE, Top.stack)
    /\ wFault' = Fault(TopEntry, "readdir")
    /\ wFrames' = PopEntry
    /\ UNCHANGED <<fsys, wResult, wPc>>

\* the open or the read of isTextFile throws for a kept file: isTextFile returns
\* false, countLines is not called, and the file node is pushed to children
WalkOpenFails ==
    /\ wPc = "walk"
    /\ wFault = NoFault
    /\ Top.todo # <<>>
    /\ TopEntry \notin fsys.dirs
    /\ ~shouldIgnorePath(TopEntry, FALSE, Top.stack)
    /\ wFault' = Fault(TopEntry, "open")
    /\ wFrames' = [PopEntry EXCEPT ![Len(wFrames)].children =
                       Append(@, [WFile(TopEntry, <<>>) EXCEPT !.isText = FALSE,
                                                               !.lineCount = Undefined])]
    /\ UNCHANGED <<fsys, wResult, wPc>>

\* the stream of countLines emits 'error' for a kept text file: countLines rejects,
\* and with it every buildNode call in progress and buildFileTree
WalkReadFails ==
    /\ wPc = "walk"
    /\ wFault = NoFault
    /\ Top.todo # <<>>
    /\ TopEntry \notin fsys.dirs
    /\ ~shouldIgnorePath(TopEntry, FALSE, Top.stack)
    /\ isTextFile(BytesOf(fsys, TopEntry))
    /\ wFault' = Fault(TopEntry, "read")
    /\ wFrames' = <<>>
    /\ wResult' = Rejected
    /\ wPc' = "done"
    /\ UNCHANGED fsys

\* the walk returns what buildFileTree computes
WalkAgrees == (wPc = "done" /\ wFault = NoFault) => wResult = buildFileTree(fsys)

-----------------------------------------------------------------------------
(* Properties of the ignore rules in the walk *)

RECURSIVE PathsOf(_)
\* the paths of the nodes of a tree
PathsOf(node) ==
    IF node.type \notin {"file", "folder"} THEN {}
    ELSE {node.path} \cup UNION {PathsOf(node.children[i]) : i \in DOMAIN node.children}

IsDir(fs, q) == q \in fs.dirs

\* the paths of the working tree, ignore files included
AllPaths(fs) ==
    fs.dirs \cup fs.files
    \cup {Join(d, IgnoreFileName) : d \in {e \in fs.dirs : fs.rules[e] # NoFile}}

\* the verdict of directory dirPath's own ignore file on a path below it
OwnVerdict(fs, dirPath, q) == MatcherTest(fs.rules[dirPath], Relative(dirPath, q), IsDir(fs, q))

Asserts(v) == v.ignored \/ v.unignored

\* the directories above q whose ignore file asserts something about q
AssertingDirs(fs, q) ==
    {d \in fs.dirs : /\ IsPrefix(d, q) /\ d # q
                     /\ fs.rules[d] # NoFile
                     /\ Asserts(OwnVerdict(fs, d, q))}

\* q is un-ignored by the ignore file of D, the deepest one that asserts about q,
\* and some entry further out ignores q
ReversedBy(fs, D, q) ==
    /\ D \in AssertingDirs(fs, q)
    /\ \A d \in AssertingDirs(fs, q) : Len(d) <= Len(D)
    /\ OwnVerdict(fs, D, q).unignored
    /\ \E d \in AssertingDirs(fs, q) : Len(d) < Len(D) /\ OwnVerdict(fs, d, q).ignored

\* C5: when the walk is done and no filesystem access failed, every path that the ignore file of a walked directory
\* D un-ignores (no deeper ignore file asserting anything about it), and that an
\* outer ignore file ignores, is in the tree.
C5_DeeperUnignoreIncludes ==
    (wPc = "done" /\ wFault = NoFault) =>
        \A D \in fsys.dirs : \A q \in AllPaths(fsys) :
            (D \in PathsOf(wResult) /\ ReversedBy(fsys, D, q)) => q \in PathsOf(wResult)

WithoutIgnoreFile(fs, D) == [fs EXCEPT !.rules[D] = NoFile]

\* the paths of a set that are not below D
Outside(paths, D) == {q \in paths : ~(IsPrefix(D, q) /\ q # D)}

\* C6: when the walk is done and no filesystem access failed, for every directory D
\* with an ignore file, the paths of the tree that are not below D are those of the
\* walk of the same working tree without D's ignore file.
C6_IgnoreFileScopedToSubtree ==
    (wPc = "done" /\ wFault = NoFault) =>
        \A D \in fsys.dirs :
            fsys.rules[D] # NoFile =>
                Outside(PathsOf(wResult), D)
                    = Outside(PathsOf(buildFileTree(WithoutIgnoreFile(fsys, D))), D)

\* C6 witness: d's ignore file excludes d/a.c (without the file it is in the tree)
\* while e/a.c, outside d, is in the tree.
C6_Witness ==
    /\ wPc = "done"
    /\ wFault = NoFault
    /\ fsys.rules[<<NameD>>] # NoFile
    /\ <<NameD>> \in PathsOf(wResult)
    /\ <<NameD, NameAC>> \notin PathsOf(wResult)
    /\ <<NameD, NameAC>> \in PathsOf(buildFileTree(WithoutIgnoreFile(fsys, <<NameD>>)))
    /\ <<NameE, NameAC>> \in PathsOf(wResult)

\* the entries of a stack that assert ignored or un-ignored for a path below their base
AssertingEntries(absPath, isDir, stack) ==
    {i \in 1..Len(stack) :
        /\ IsPrefix(stack[i].base, absPath) /\ stack[i].base # absPath
        /\ Asserts(MatcherTest(stack[i].matcher, Relative(stack[i].base, absPath), isDir))}

\* the verdict of the last asserting entry; not ignored when no entry asserts
LastAssertion(absPath, isDir, stack) ==
    LET A == AssertingEntries(absPath, isDir, stack)
    IN IF A = {} THEN FALSE
       ELSE LET i == CHOOSE j \in A : \A k \in A : k <= j
            IN MatcherTest(stack[i].matcher, Relative(stack[i].base, absPath), isDir).ignored

\* C7: for the entry the walk is about to test, shouldIgnorePath returns the verdict
\* of the last entry of the stack that asserts ignored or un-ignored for it, and
\* FALSE when none does.
C7_LastAssertionWins ==
    (wPc = "walk" /\ Top.todo # <<>>) =>
        shouldIgnorePath(TopEntry, IsDir(fsys, TopEntry), Top.stack)
            = LastAssertion(TopEntry, IsDir(fsys, TopEntry), Top.stack)

-----------------------------------------------------------------------------
(* Properties of the walk when a filesystem access fails *)

\* the paths of a set that are neither p nor below p
NotUnder(paths, p) == {q \in paths : ~IsPrefix(p, q)}

\* C12: when one filesystem access (stat, readdir, open or read) failed for an entry
\* during the walk, buildFileTree still resolves with a tree, and apart from that
\* entry and what lies below it the tree has the paths of the walk without failure.
C12_FailureRemovesOnlyTheEntry ==
    (wPc = "done" /\ wFault # NoFault) =>
        /\ wResult.type = "folder"
        /\ NotUnder(PathsOf(wResult), wFault.path)
               = NotUnder(PathsOf(buildFileTree(fsys)), wFault.path)

\* C13: when the open of isTextFile failed for a file during the walk, the file is
\* not a node of the returned tree.
C13_UnopenableFileAbsent ==
    (wPc = "done" /\ wFault.kind = "open") => wFault.path \notin PathsOf(wResult)

-----------------------------------------------------------------------------
(* Author colours: the hash, colorForAuthor, colorForAuthorHex                *)
(* An author is the sequence of its UTF-16 code units. A 32-bit hash is kept  *)
(* as its two 16-bit halves [hi, lo].                                         *)

Half == 65536

\* hash = (hash * 31 + author.charCodeAt(i)) | 0
HashStep(h, code) ==
    [lo |-> (h.lo * 31 + code) % Half,
     hi |-> (h.hi * 31 + ((h.lo * 31 + code) \div Half)) % Half]

RECURSIVE HashFrom(_, _, _)
HashFrom(h, author, i) ==
    IF i > Len(author) \/ h.lo < 0 THEN h
    ELSE HashFrom(HashStep(h, author[i]), author, i + 1)

\* the value of hash after the loop
HashOf(author) == HashFrom([hi |-> 0, lo |-> 0], author, 1)

\* mutant of HueOf: the remainder of the hash itself, negative for a negative hash
HueOfNoAbs(h) ==
    LET u == (((h.hi % 360) * 16) + h.lo) % 360
    IN IF h.hi >= Half \div 2 THEN 0 - ((256 + 360 - u) % 360) ELSE u

\* Math.abs(hash) % 360: 65536 is 16 modulo 360 and 2^32 is 256; a hash with the
\* top bit set is negative, its absolute value is 2^32 minus the unsigned value
HueOf(h) ==
    LET u == (((h.hi % 360) * 16) + h.lo) % 360
    IN IF h.hi >= Half \div 2 THEN (256 + 360 - u) % 360 ELSE u

TextColour(t) == [kind |-> "text", text |-> t, hue |-> 0, rgb |-> <<>>]
HslColour(hue) == [kind |-> "hsl", text |-> "", hue |-> hue, rgb |-> <<>>]
HexColour(rgb) == [kind |-> "hex", text |-> "", hue |-> 0, rgb |-> rgb]
NumberValue == [kind |-> "number", text |-> "", hue |-> 0, rgb |-> <<>>]

\* a value as a condition: of the strings only '' is falsy
Truthy(v) == ~(v.kind = "text" /\ v.text = "")

\* toHex(v) for v = c * k / 60 (k = 60 for c, 0 for 0) with s = 55 and l = 45:
\* Math.round((v + m) * 255) = round(2.10375 k + 51.6375), as two hex digits
ToHex(k) ==
    LET n == (210375 * k + 5163750 + 50000) \div 100000
    IN <<n \div 16, n % 16>>

\* hslToHex(h, 55, 45)
hslToHex(h) ==
    LET d == (h % 120) - 60
        x == 60 - (IF d < 0 THEN -d ELSE d)
        c == 60
    IN HexColour(IF h < 60 THEN ToHex(c) \o ToHex(x) \o ToHex(0)
                 ELSE IF h < 120 THEN ToHex(x) \o ToHex(c) \o ToHex(0)
                 ELSE IF h < 180 THEN ToHex(0) \o ToHex(c) \o ToHex(x)
                 ELSE IF h < 240 THEN ToHex(0) \o ToHex(x) \o ToHex(c)
                 ELSE IF h < 300 THEN ToHex(x) \o ToHex(0) \o ToHex(c)
                 ELSE ToHex(c) \o ToHex(0) \o ToHex(x))

RECURSIVE HexHashFrom(_, _, _)
\* the hash loop of colorForAuthorHex
HexHashFrom(h, author, i) ==
    IF i > Len(author) \/ h.hi < 0 THEN h
    ELSE HexHashFrom(HashStep(h, author[i]), author, i + 1)

colorForAuthorHex(author) == hslToHex(HueOf(HexHashFrom([hi |-> 0, lo |-> 0], author, 1)))

\* mutant of colorForAuthor: the map is not consulted
colorForAuthorNoOverride(author, authorColors) == HslColour(HueOf(HashOf(author)))

\* colorForAuthor(author) of the tree view, authorColors being the embedded map
\* (author is not the name of a property every object has)
colorForAuthor(author, authorColors) ==
    IF author \in DOMAIN authorColors /\ Truthy(authorColors[author])
    THEN authorColors[author]
    ELSE HslColour(HueOf(HashOf(author)))

-----------------------------------------------------------------------------
(* ensureAuthorColors, sanitizeColorMap and the colour messages *)

RECURSIVE EnsureFrom(_, _, _)
\* the loop of ensureAuthorColors on [colors, changed]
EnsureFrom(st, as, i) ==
    IF i > Len(as) THEN st
    ELSE EnsureFrom(IF as[i] \in DOMAIN st.colors /\ Truthy(st.colors[as[i]])
                    THEN st
                    ELSE [colors |-> [a \in DOMAIN st.colors \cup {as[i]} |->
                                         IF a = as[i] THEN colorForAuthorHex(a)
                                         ELSE st.colors[a]],
                          changed |-> TRUE],
                    as, i + 1)

\* ensureAuthorColors(context, authors): [colors, changed]
ensureAuthorColors(stored, as) == EnsureFrom([colors |-> stored, changed |-> FALSE], as, 1)

\* sanitizeColorMap(input): the entries whose value is a string (a text of the
\* message, or a colour string the extension produced)
sanitizeColorMap(input) ==
    [a \in {b \in DOMAIN input : input[b].kind # "number"} |-> input[a]]

MaxNameLen == 2          \* code units of an author asked for

NameA == <<97>>
NameZZ == <<122, 122>>
\* "polygenelubricants": its hash is -2^31
NamePoly == <<112, 111, 108, 121, 103, 101, 110, 101, 108, 117, 98, 114, 105, 99, 97, 110,
              116, 115>>
\* "zzzzzzzz": its hash is negative
NameZ8 == [i \in 1..8 |-> 122]

\* the authors that get entries, and the authors colours are asked for
MapAuthors == {NameA, NameZZ, NamePoly}
DrawAuthors == (SeqsUpTo({97, 122}, MaxNameLen) \ {<<>>}) \cup {NamePoly, NameZ8}

\* message.colors of a 'saveColors' message
MessageValues == {TextColour(""), TextColour("#ff0000"), NumberValue}
MessageMaps == UNION {[D -> MessageValues] : D \in SUBSET MapAuthors}

AuthorLists == {<<>>, <<NameA>>, <<NameZZ>>, <<NameA, NameZZ>>, <<NamePoly>>, <<NameA, NamePoly>>}

NoDraw == [author |-> <<>>, colour |-> TextColour("")]

ColourInit ==
    /\ storedColors = <<>>
    /\ lastAuthors = <<>>
    /\ viewColors = <<>>
    /\ viewShown = FALSE
    /\ drawn = NoDraw

\* showFileTree, once the tree is there: lastAuthors, ensureAuthorColors, the view
ShowColours ==
    /\ \E as \in AuthorLists :
          /\ lastAuthors' = as
          /\ storedColors' = ensureAuthorColors(storedColors, as).colors
          /\ viewColors' = ensureAuthorColors(storedColors, as).colors
    /\ viewShown' = TRUE
    /\ drawn' = NoDraw

\* the 'saveColors' message of the colour configuration panel
SaveColors ==
    /\ \E colors \in MessageMaps :
          /\ storedColors' = sanitizeColorMap(colors)
          /\ viewColors' = IF viewShown THEN sanitizeColorMap(colors) ELSE viewColors
    /\ drawn' = NoDraw
    /\ UNCHANGED <<lastAuthors, viewShown>>

\* drawBlameSegments asks for the colour of a segment's author
DrawSegment ==
    /\ viewShown
    /\ \E author \in DrawAuthors :
          drawn' = [author |-> author, colour |-> colorForAuthor(author, viewColors)]
    /\ UNCHANGED <<storedColors, lastAuthors, viewColors, viewShown>>

\* the hash of the claim, kept as four bytes, most significant first:
\* hash * 31 + code, the carries passed upwards, the bits above 32 dropped
RefStep(b, code) ==
    LET t0 == b[4] * 31 + code
        t1 == b[3] * 31 + (t0 \div 256)
        t2 == b[2] * 31 + (t1 \div 256)
        t3 == b[1] * 31 + (t2 \div 256)
    IN <<t3 % 256, t2 % 256, t1 % 256, t0 % 256>>

RECURSIVE RefHash(_, _, _)
RefHash(b, author, i) ==
    IF i > Len(author) \/ b[1] < 0 THEN b
    ELSE RefHash(RefStep(b, author[i]), author, i + 1)

\* the bytes of the absolute value: a negative hash (top bit set) is negated in
\* two's complement, which leaves -2^31 as 2^31
RefAbs(b) ==
    IF b[1] < 128 THEN b
    ELSE LET n4 == (255 - b[4]) + 1
             n3 == (255 - b[3]) + (n4 \div 256)
             n2 == (255 - b[2]) + (n3 \div 256)
             n1 == (255 - b[1]) + (n2 \div 256)
         IN <<n1 % 256, n2 % 256, n3 % 256, n4 % 256>>

\* abs(hash) mod 360 from the bytes
RefHue(author) ==
    LET b == RefAbs(RefHash(<<0, 0, 0, 0>>, author, 1))
    IN ((((((b[1] % 360) * 256 + b[2]) % 360) * 256 + b[3]) % 360) * 256 + b[4]) % 360

\* C11: every fallback colour the view returns has the hue abs(hash) mod 360 of the
\* wrapped 31-fold of the author, a number in 0..359, and every colour the host
\* generates for an author is the hex form of that same hue.
C11_HueOfWrappedHash ==
    /\ (drawn # NoDraw /\ drawn.colour.kind = "hsl") =>
           /\ drawn.colour.hue \in 0..359
           /\ drawn.colour.hue = RefHue(drawn.author)
    /\ \A a \in DOMAIN storedColors :
           storedColors[a].kind = "hex" =>
               /\ storedColors[a] = hslToHex(RefHue(a))
               /\ storedColors[a] = hslToHex(colorForAuthor(a, <<>>).hue)

\* C11 witness: the author whose hash is -2^31 has its host colour, of hue 128, and
\* an author of negative hash was drawn with the fallback colour, of hue 72.
C11_Witness ==
    /\ NamePoly \in DOMAIN storedColors
    /\ storedColors[NamePoly] = hslToHex(128)
    /\ drawn.author = NameZ8
    /\ drawn.colour = HslColour(72)

IsFallback(author, colour) == colour = HslColour(HueOf(HashOf(author)))

-----------------------------------------------------------------------------
(* The showFileTree command: cache lookup, build, attribution, cache write,   *)
(* render.  The handler is asynchronous and nothing keeps a second run from   *)
(* starting while a first one is waiting, so the runs of RunIds interleave at *)
(* their awaits; each action is the code between two awaits of one run.       *)
(* A tree is its list of text files; a file is the author its blameSegments   *)
(* name, or NoSegmentsYet while it has no blameSegments.                      *)

MaxRevisions == 2        \* revisions HEAD moves through
MaxShowFiles == 2        \* text files of the working tree

RunIds == {1, 2}
Revisions == 1..MaxRevisions

\* getCurrentCommitHash returned null (or the empty string)
NoHash == 0

NoSegmentsYet == <<>>

\* the author the backend names for the i-th file
BlameAuthorOf(i) == IF i = 1 THEN NameA ELSE NameZZ

ShowTree(files) == [kind |-> "tree", files |-> files]
ShowNull == [kind |-> "null", files |-> <<>>]

\* cache files that hold no tree: none, one readFile rejects, one JSON.parse rejects
NoEntry == [kind |-> "none", files |-> <<>>]
Unreadable == [kind |-> "unreadable", files |-> <<>>]
Unparsable == [kind |-> "unparsable", files |-> <<>>]

\* what buildFileTree resolves with for a working tree of n text files
BuiltTree(n) == ShowTree([i \in 1..n |-> NoSegmentsYet])

\* a tree stored by an earlier session
StoredTree(n) == ShowTree([i \in 1..n |-> BlameAuthorOf(i)])

InitialEntries == {NoEntry, Unreadable, Unparsable} \cup {StoredTree(n) : n \in 1..MaxShowFiles}

\* CacheManager.getBlameCache: the parsed content, null when readFile or JSON.parse throws
getBlameCache(cache, hash) == IF cache[hash].kind = "tree" THEN cache[hash] ELSE ShowNull

\* CacheManager.saveBlameCache: writeFile replaces the file; a failing write is logged
\* and dropped (the file of an unreadable entry cannot be written either)
saveBlameCache(cache, hash, data) ==
    IF cache[hash].kind = "unreadable" THEN cache ELSE [cache EXCEPT ![hash] = data]

RECURSIVE AuthorLess(_, _)
\* a.localeCompare(b) < 0 on authors of lower-case letters (code units in order)
AuthorLess(a, b) ==
    IF b = <<>> THEN FALSE
    ELSE IF a = <<>> THEN TRUE
    ELSE IF Head(a) # Head(b) THEN Head(a) < Head(b)
    ELSE AuthorLess(Tail(a), Tail(b))

RECURSIVE InsertAuthor(_, _)
InsertAuthor(a, s) ==
    IF s = <<>> THEN <<a>>
    ELSE IF a = Head(s) THEN s
    ELSE IF AuthorLess(a, Head(s)) THEN <<a>> \o s
    ELSE <<Head(s)>> \o InsertAuthor(a, Tail(s))

RECURSIVE AuthorsFrom(_, _)
AuthorsFrom(files, acc) ==
    IF files = <<>> \/ Len(acc) < 0 THEN acc
    ELSE AuthorsFrom(Tail(files),
                     IF Head(files) = NoSegmentsYet THEN acc ELSE InsertAuthor(Head(files), acc))

\* collectAuthors(root): the non-empty authors of the blameSegments, sorted
collectAuthors(tree) == AuthorsFrom(tree.files, <<>>)

NoPage == [page |-> "none", tree |-> ShowNull]
LoadingPage == [page |-> "loading", tree |-> ShowNull]
ErrorPage == [page |-> "error", tree |-> ShowNull]
\* getWebviewContent(fileTree, authorColors)
TreePage(tree) == [page |-> "tree", tree |-> tree]

NoPanel == 0

NewRun ==
    [pc |-> "idle", commitHash |-> NoHash, fileTree |-> ShowNull, isCached |-> FALSE,
     html |-> NoPage, done |-> 0, log |-> <<>>]

\* the colour configuration panel: closed, or open with a row (name and colour input)
\* for every author it was given: lastAuthors and the keys of the stored map when it
\* was opened
NoConfig == [open |-> FALSE, rows |-> <<>>]
ConfigPanel(rows) == [open |-> TRUE, rows |-> rows]

\* createRow: colorInput.value = color || '#4a7bd1'
DefaultRowColour == TextColour("#4a7bd1")
createRows(names, colors) ==
    [a \in names \cup DOMAIN colors |->
        IF a \in DOMAIN colors THEN colors[a] ELSE DefaultRowColour]

\* the 'saveColors' handler waiting for globalState.update: the map it will render
NothingPending == [waiting |-> FALSE, colors |-> <<>>]
PendingRender(colors) == [waiting |-> TRUE, colors |-> colors]

\* the colours the rows of the panel are set to before it saves
PickedColours == {TextColour("#ff0000")}

ShowInit ==
    /\ shStorage \in BOOLEAN
    /\ shHead = 1
    /\ shFiles \in 1..MaxShowFiles
    /\ shCache \in [Revisions -> InitialEntries]
    /\ \A h \in Revisions : h > 1 => shCache[h] = NoEntry
    /\ shRuns = [r \in RunIds |-> NewRun]
    /\ shConfig = NoConfig
    /\ shPending = NothingPending
    /\ lastFileTree = ShowNull
    /\ currentPanel = NoPanel
    /\ storedColors = <<>>
    /\ lastAuthors = <<>>
    /\ viewColors = <<>>
    /\ viewShown = FALSE
    /\ drawn = NoDraw

Logged(run, e) == [run EXCEPT !.log = Append(@, e)]

\* a commit moves HEAD to the next revision
Commit ==
    /\ shHead < MaxRevisions
    /\ shHead' = shHead + 1
    /\ UNCHANGED <<shStorage, shFiles, shCache, shRuns, shConfig, shPending, lastFileTree,
                   currentPanel, colourVars>>

\* the command is run outside a repository: a warning, no panel
ShowNoRepo(r) ==
    /\ shRuns[r].pc = "idle"
    /\ shRuns' = [shRuns EXCEPT ![r] = [@ EXCEPT !.pc = "returned"]]
    /\ UNCHANGED <<shStorage, shHead, shFiles, shCache, shConfig, shPending, lastFileTree,
                   currentPanel, colourVars>>

\* the panel is created with the loading page, then new CacheManager(context): the
\* constructor throws without context.storageUri, before the try block is entered
ShowStart(r) ==
    /\ shRuns[r].pc = "idle"
    /\ shRuns' = [shRuns EXCEPT ![r] =
                     [@ EXCEPT !.html = LoadingPage,
                               !.pc = IF shStorage THEN "hash" ELSE "rejected"]]
    /\ UNCHANGED <<shStorage, shHead, shFiles, shCache, shConfig, shPending, lastFileTree,
                   currentPanel, colourVars>>

\* ShowRender without the assignment of lastAuthors
ShowRenderKeepsAuthors(r, run) ==
    /\ lastAuthors' = lastAuthors
    /\ lastFileTree' = run.fileTree
    /\ currentPanel' = r
    /\ storedColors' = ensureAuthorColors(storedColors, collectAuthors(run.fileTree)).colors
    /\ viewColors' = ensureAuthorColors(storedColors, collectAuthors(run.fileTree)).colors
    /\ viewShown' = TRUE
    /\ drawn' = NoDraw
    /\ shRuns' = [shRuns EXCEPT ![r] =
                     [Logged(run, "render") EXCEPT !.html = TreePage(run.fileTree),
                                                   !.pc = "returned"]]

\* lastAuthors, lastFileTree, currentPanel, ensureAuthorColors, getWebviewContent
ShowRender(r, run) ==
    /\ lastAuthors' = collectAuthors(run.fileTree)
    /\ lastFileTree' = run.fileTree
    /\ currentPanel' = r
    /\ storedColors' = ensureAuthorColors(storedColors, collectAuthors(run.fileTree)).colors
    /\ viewColors' = ensureAuthorColors(storedColors, collectAuthors(run.fileTree)).colors
    /\ viewShown' = TRUE
    /\ drawn' = NoDraw
    /\ shRuns' = [shRuns EXCEPT ![r] =
                     [Logged(run, "render") EXCEPT !.html = TreePage(run.fileTree),
                                                   !.pc = "returned"]]

\* getCurrentCommitHash resolves; with a hash the cache file is read next, without one
\* buildFileTree is started
ShowGotHash(r) ==
    /\ shRuns[r].pc = "hash"
    /\ \E h \in {shHead, NoHash} :
          shRuns' = [shRuns EXCEPT ![r] =
                        [@ EXCEPT !.commitHash = h,
                                  !.pc = IF h # NoHash THEN "lookup" ELSE "build"]]
    /\ UNCHANGED <<shStorage, shHead, shFiles, shCache, shConfig, shPending, lastFileTree,
                   currentPanel, colourVars>>

\* getBlameCache resolves with a tree: it is rendered and the handler returns
ShowCacheHit(r) ==
    /\ shRuns[r].pc = "lookup"
    /\ getBlameCache(shCache, shRuns[r].commitHash) # ShowNull
    /\ ShowRender(r, [Logged(shRuns[r], "hit") EXCEPT
                         !.fileTree = getBlameCache(shCache, shRuns[r].commitHash),
                         !.isCached = TRUE])
    /\ UNCHANGED <<shStorage, shHead, shFiles, shCache, shConfig, shPending>>

\* getBlameCache resolves with null: buildFileTree is started
ShowCacheMiss(r) ==
    /\ shRuns[r].pc = "lookup"
    /\ getBlameCache(shCache, shRuns[r].commitHash) = ShowNull
    /\ shRuns' = [shRuns EXCEPT ![r] = [Logged(@, "miss") EXCEPT !.pc = "build"]]
    /\ UNCHANGED <<shStorage, shHead, shFiles, shCache, shConfig, shPending, lastFileTree,
                   currentPanel, colourVars>>

\* buildFileTree resolves with null or rejects: the error page
ShowBuildFails(r) ==
    /\ shRuns[r].pc = "build"
    /\ shRuns' = [shRuns EXCEPT ![r] =
                     [Logged(@, "build") EXCEPT !.html = ErrorPage, !.pc = "returned"]]
    /\ UNCHANGED <<shStorage, shHead, shFiles, shCache, shConfig, shPending, lastFileTree,
                   currentPanel, colourVars>>

\* buildFileTree resolves with the tree; addBlameInfo starts on its first file
ShowBuilt(r) ==
    /\ shRuns[r].pc = "build"
    /\ shRuns' = [shRuns EXCEPT ![r] =
                     [Logged(@, "build") EXCEPT !.fileTree = BuiltTree(shFiles),
                                                !.done = 1,
                                                !.pc = "blame"]]
    /\ UNCHANGED <<shStorage, shHead, shFiles, shCache, shConfig, shPending, lastFileTree,
                   currentPanel, colourVars>>

\* getBlameSegments of the current file resolves, with segments or with null; the loop
\* of addBlameInfo goes on, and after the last file saveBlameCache is called
ShowBlamed(r) ==
    /\ shRuns[r].pc = "blame"
    /\ \E segs \in {NoSegmentsYet, BlameAuthorOf(shRuns[r].done)} :
          shRuns' = [shRuns EXCEPT ![r] =
                        [Logged(@, IF segs = NoSegmentsYet THEN "blame failed" ELSE "blame")
                            EXCEPT !.fileTree.files[shRuns[r].done] = segs,
                                   !.done = IF @ < Len(shRuns[r].fileTree.files) THEN @ + 1 ELSE @,
                                   !.pc = IF shRuns[r].done < Len(shRuns[r].fileTree.files)
                                          THEN "blame" ELSE "save"]]
    /\ UNCHANGED <<shStorage, shHead, shFiles, shCache, shConfig, shPending, lastFileTree,
                   currentPanel, colourVars>>

\* ShowSaved calling saveBlameCache whatever commitHash is
ShowSavedWithoutHash(r) ==
    /\ shRuns[r].pc = "save"
    /\ shCache' = IF shRuns[r].commitHash # NoHash
                  THEN saveBlameCache(shCache, shRuns[r].commitHash, shRuns[r].fileTree)
                  ELSE shCache
    /\ ShowRender(r, Logged(shRuns[r], "save"))
    /\ UNCHANGED <<shStorage, shHead, shFiles, shConfig, shPending>>

\* if (commitHash && fileTree) await saveBlameCache(commitHash, fileTree); then the
\* tree is rendered
ShowSaved(r) ==
    /\ shRuns[r].pc = "save"
    /\ IF shRuns[r].commitHash # NoHash
       THEN /\ shCache' = saveBlameCache(shCache, shRuns[r].commitHash, shRuns[r].fileTree)
            /\ ShowRender(r, Logged(shRuns[r], "save"))
       ELSE /\ shCache' = shCache
            /\ ShowRender(r, shRuns[r])
    /\ UNCHANGED <<shStorage, shHead, shFiles, shConfig, shPending>>

\* code-kingdom.configureAuthorColors: a panel with a row per author of lastAuthors
\* and per key of the stored map
ConfigOpen ==
    /\ shConfig' = ConfigPanel(createRows({lastAuthors[i] : i \in DOMAIN lastAuthors},
                                          storedColors))
    /\ shConfig' # shConfig
    /\ UNCHANGED <<shStorage, shHead, shFiles, shCache, shRuns, shPending, lastFileTree,
                   currentPanel, colourVars>>

\* some colour inputs of the panel are changed and saveNow() posts the colours of all
\* its rows; the handler sanitizes them, replaces the stored map and awaits
\* globalState.update
ConfigSaveColors ==
    /\ shConfig.open
    /\ ~shPending.waiting
    /\ \E changed \in SUBSET DOMAIN shConfig.rows, colour \in PickedColours :
          LET rows == [a \in DOMAIN shConfig.rows |->
                          IF a \in changed THEN colour ELSE shConfig.rows[a]]
              nextColors == sanitizeColorMap(rows)
          IN /\ changed # {}
             /\ shConfig' = ConfigPanel(rows)
             /\ storedColors' = nextColors
             /\ shPending' = PendingRender(nextColors)
    /\ UNCHANGED <<shStorage, shHead, shFiles, shCache, shRuns, lastFileTree, currentPanel,
                   lastAuthors, viewColors, viewShown, drawn>>

\* globalState.update resolved: if (currentPanel && lastFileTree) the tree is
\* rendered again with nextColors
ConfigSaved ==
    /\ shPending.waiting
    /\ shPending' = NothingPending
    /\ IF currentPanel # NoPanel /\ lastFileTree # ShowNull
       THEN /\ shRuns' = [shRuns EXCEPT ![currentPanel].html = TreePage(lastFileTree)]
            /\ viewColors' = shPending.colors
       ELSE UNCHANGED <<shRuns, viewColors>>
    /\ UNCHANGED <<shStorage, shHead, shFiles, shCache, shConfig, lastFileTree, currentPanel,
                   storedColors, lastAuthors, viewShown, drawn>>

-----------------------------------------------------------------------------
(* Properties of the showFileTree command *)

\* positions of the log of run holding an event of es
LogPositions(run, es) == {i \in DOMAIN run.log : run.log[i] \in es}

BlameEvents == {"blame", "blame failed"}

\* C15: a cache write happens only after a fully successful attribution pass.
\* In every run that has called saveBlameCache the tree was built, addBlameInfo had
\* gone through all its files before the call, and no file of the written tree is
\* without attribution.
C15_SaveOnlyAfterFullAttribution ==
    \A r \in RunIds :
        \A s \in LogPositions(shRuns[r], {"save"}) :
            /\ \E b \in LogPositions(shRuns[r], {"build"}) : b < s
            /\ shRuns[r].fileTree.kind = "tree"
            /\ Cardinality({b \in LogPositions(shRuns[r], BlameEvents) : b < s})
                   = Len(shRuns[r].fileTree.files)
            /\ LogPositions(shRuns[r], {"blame failed"}) = {}
            /\ \A i \in DOMAIN shRuns[r].fileTree.files :
                   shRuns[r].fileTree.files[i] # NoSegmentsYet

\* what a run does with the result of its lookup
C16_HitOrFullRebuild ==
    \A r \in RunIds :
        /\ LogPositions(shRuns[r], {"hit"}) # {} =>
               /\ shRuns[r].fileTree.kind = "tree"
               /\ LogPositions(shRuns[r], {"build"} \cup BlameEvents) = {}
               /\ shRuns[r].html = TreePage(shRuns[r].fileTree)
        /\ (LogPositions(shRuns[r], {"miss"}) # {} /\ shRuns[r].pc = "returned") =>
               /\ LogPositions(shRuns[r], {"build"}) # {}
               /\ shRuns[r].fileTree.kind = "tree" =>
                      Cardinality(LogPositions(shRuns[r], BlameEvents))
                          = Len(shRuns[r].fileTree.files)

\* no step changes a cache entry that holds a tree
C16_EntryKept == \A h \in Revisions : shCache[h].kind = "tree" => shCache'[h] = shCache[h]

\* C16: a lookup by the current revision yields a stored tree or nothing; a hit is
\* rendered without buildFileTree and addBlameInfo, a miss runs the full rebuild,
\* and an entry that holds a tree is never changed (a new revision gets its own
\* entry).
C16_HitOrRebuildAndEntryKept == []C16_HitOrFullRebuild /\ [][C16_EntryKept]_vars

\* C17: without context.storageUri a started run does not fail: it is never
\* rejected, and when it has returned it has built the tree and has neither read
\* nor written the cache.
C17_RunsWithoutStorage ==
    ~shStorage =>
        \A r \in RunIds :
            /\ shRuns[r].pc # "rejected"
            /\ (shRuns[r].pc = "returned" /\ shRuns[r].html # NoPage) =>
                   /\ LogPositions(shRuns[r], {"build"}) # {}
                   /\ LogPositions(shRuns[r], {"hit", "miss", "save"}) = {}

\* C25: in every reachable state of overlapping showFileTree runs and saveColors
\* messages, currentPanel is set exactly when lastFileTree is non-null, and then
\* currentPanel, lastFileTree and lastAuthors come from the same run (lastAuthors =
\* collectAuthors(lastFileTree)) and the page of currentPanel shows lastFileTree
C25_PanelTreeAuthorsFromOneRun ==
    /\ (currentPanel # NoPanel) <=> (lastFileTree # ShowNull)
    /\ currentPanel # NoPanel =>
          /\ shRuns[currentPanel].fileTree = lastFileTree
          /\ lastAuthors = collectAuthors(lastFileTree)
          /\ shRuns[currentPanel].html = TreePage(lastFileTree)

\* two runs rendered different trees, the first one last, and a saveColors message was
\* handled to its end
C25_Witness ==
    /\ \A r \in RunIds : shRuns[r].pc = "returned" /\ shRuns[r].html.page = "tree"
    /\ shRuns[1].fileTree # shRuns[2].fileTree
    /\ collectAuthors(shRuns[1].fileTree) # collectAuthors(shRuns[2].fileTree)
    /\ currentPanel = 1
    /\ ~shPending.waiting
    /\ \E a \in DOMAIN viewColors : viewColors[a] \in PickedColours

\* C28: once a tree has been shown, every author of lastAuthors has an entry in the
\* persisted colour map, whatever configuration panel a saveColors message comes from
C28_ShownAuthorsHaveStoredColour ==
    lastFileTree # ShowNull =>
        \A i \in DOMAIN lastAuthors : lastAuthors[i] \in DOMAIN storedColors

\* a run that got no revision identifier, and a run whose tree build failed
C30_NoHashNoCache ==
    \A r \in RunIds :
        /\ (/\ shRuns[r].commitHash = NoHash
            /\ shRuns[r].html # NoPage
            /\ shRuns[r].pc \notin {"idle", "hash", "rejected"}) =>
               /\ LogPositions(shRuns[r], {"hit", "miss", "save"}) = {}
               /\ ~shRuns[r].isCached
               /\ shRuns[r].pc = "returned" =>
                      /\ LogPositions(shRuns[r], {"build"}) # {}
                      /\ shRuns[r].html # ErrorPage =>
                             /\ Cardinality(LogPositions(shRuns[r], BlameEvents))
                                    = Len(shRuns[r].fileTree.files)
                             /\ LogPositions(shRuns[r], {"render"}) # {}
                             /\ shRuns[r].html = TreePage(shRuns[r].fileTree)
        /\ shRuns[r].html = ErrorPage =>
               /\ LogPositions(shRuns[r], {"save", "render"}) = {}
               /\ currentPanel # r

\* the step in which the tree build of a run fails changes neither the cache nor
\* lastFileTree and currentPanel
C30_FailedBuildKeeps ==
    \A r \in RunIds :
        (shRuns[r].html # ErrorPage /\ shRuns'[r].html = ErrorPage) =>
            UNCHANGED <<shCache, lastFileTree, currentPanel, lastAuthors>>

\* C30: a run that cannot obtain the revision identifier neither reads nor writes the
\* cache and still builds, attributes and renders; a run whose tree build returns
\* null writes nothing to the cache and leaves lastFileTree and currentPanel as
\* they were.
C30_NoHashRunsUncachedFailedBuildKeeps == []C30_NoHashNoCache /\ [][C30_FailedBuildKeeps]_vars

\* a run without revision identifier has rendered its tree while a cache entry for
\* HEAD existed, and the build of the other run failed afterwards or before
C30_Witness ==
    /\ shRuns[1].commitHash = NoHash /\ shRuns[1].pc = "returned"
    /\ shRuns[1].html.page = "tree"
    /\ shCache[shHead].kind = "tree"
    /\ shRuns[2].html = ErrorPage
    /\ currentPanel = 1 /\ lastFileTree = shRuns[1].fileTree

\* a call of packMaxRects is under way, with target width TargetOf(rects, cand)
Packing == layoutRoot = NoLayout /\ rects # <<>> /\ cand <= NumCandidates

\* freeRects when the region for the next rectangle is taken: with the region of the
\* 'extend' branch when the rectangle fits nowhere
FreeAtChoice ==
    IF sorted # <<>> /\ FindBest(Head(sorted), freeRects, TargetOf(rects, cand)) = 0
    THEN Append(freeRects, ExtendRect(Head(sorted), totalHeightOf(rects)))
    ELSE freeRects

\* the region the next rectangle is placed in
ChosenRegion ==
    LET found == FindBest(Head(sorted), freeRects, TargetOf(rects, cand))
    IN IF found = 0 THEN FreeAtChoice[Len(FreeAtChoice)] ELSE freeRects[found]

\* two free regions share positive area (a region is target + wk wide)
FreeOverlap(a, b, t) ==
    /\ LessT(a.x - b.x - b.wk, t)
    /\ LessT(b.x - a.x - a.wk, t)
    /\ a.y < b.y + b.height
    /\ b.y < a.y + a.height

\* a free region and a placed rectangle share positive area
FreePlacedOverlap(f, p, t) ==
    /\ f.x < p.x + p.width
    /\ LessT(p.x - f.x - f.wk, t)
    /\ f.y < p.y + p.height
    /\ p.y < f.y + f.height

FreeRegionsDisjoint ==
    Packing =>
        \A i, j \in DOMAIN FreeAtChoice :
            i # j => ~FreeOverlap(FreeAtChoice[i], FreeAtChoice[j], TargetOf(rects, cand))

FreeRegionsClearOfPlaced ==
    Packing =>
        \A i \in DOMAIN FreeAtChoice, k \in DOMAIN placed :
            ~FreePlacedOverlap(FreeAtChoice[i], placed[k], TargetOf(rects, cand))

PlacedInsideChosenRegion ==
    (Packing /\ sorted # <<>>) => Fits(Head(sorted), ChosenRegion, TargetOf(rects, cand))

NoFreeRegionInsideAnother ==
    (Packing /\ placed # <<>>) =>
        \A i, j \in DOMAIN freeRects : i # j => ~Contained(freeRects[i], freeRects[j])

\* C26: at every step of packMaxRects the free regions are pairwise disjoint and
\* disjoint from the placed rectangles, the next rectangle lies inside the region
\* chosen for it, and after a placement no free region is contained in another;
\* the regions of the 'extend' branch included.
C26_FreeRegionsDisjointAndPruned ==
    /\ FreeRegionsDisjoint
    /\ FreeRegionsClearOfPlaced
    /\ PlacedInsideChosenRegion
    /\ NoFreeRegionInsideAnother

\* a and b are gap apart, horizontally or vertically
GapApart(a, b) ==
    \/ a.x + a.width + Gap <= b.x
    \/ b.x + b.width + Gap <= a.x
    \/ a.y + a.height + Gap <= b.y
    \/ b.y + b.height + Gap <= a.y

\* C27: any two distinct rectangles placed by packMaxRects are separated by at least
\* CONFIG.gap horizontally or vertically.
C27_PlacedGapApart ==
    Packing => \A i, j \in DOMAIN placed : i # j => GapApart(placed[i], placed[j])

\* the test of shouldIgnorePath that makes the loop go on to the next entry
SkipsEntry(entry, absPath) == StartsWithDotDot(Relative(entry.base, absPath))

\* C29: for the path the walk is about to test, an entry of the stack is skipped
\* exactly when the path is not below the entry's base, whatever the name of the
\* path is: every entry whose base is above the path is consulted.
C29_SkippedOnlyOutsideBase ==
    (wPc = "walk" /\ Top.todo # <<>>) =>
        \A i \in 1..Len(Top.stack) :
            SkipsEntry(Top.stack[i], TopEntry)
                <=> ~(IsPrefix(Top.stack[i].base, TopEntry) /\ Top.stack[i].base # TopEntry)

-----------------------------------------------------------------------------
(* Idle values and specifications *)

LayoutIdle ==
    /\ treeData = Folder(<<>>)
    /\ rects = <<>>
    /\ cand = 1
    /\ sorted = <<>>
    /\ freeRects = <<>>
    /\ placed = <<>>
    /\ best = NoBest
    /\ layoutRoot = NoLayout

StreamIdle ==
    /\ fileBytes = <<>>
    /\ streamPos = 0
    /\ lineCount = 0
    /\ hasData = FALSE
    /\ lastByte = -1
    /\ streamChunks = 0
    /\ streamState = "idle"

RleIdle ==
    /\ authors = <<>>
    /\ rleI = 0
    /\ rleLast = ""
    /\ rleCount = 0
    /\ segments = <<>>
    /\ rleState = "unused"

BlameIdle ==
    /\ disk = <<>>
    /\ bTree = FolderN("/r", <<>>)
    /\ bNodes = <<>>
    /\ bFiles = <<>>
    /\ bDone = 0
    /\ bProgress = <<>>
    /\ bEvents = <<>>
    /\ bPc = "idle"

WalkIdle ==
    /\ fsys = [dirs |-> {<<>>}, files |-> {}, rules |-> (<<>> :> NoFile), bytes |-> <<>>]
    /\ wFrames = <<>>
    /\ wResult = Pending
    /\ wPc = "idle"
    /\ wFault = NoFault

DirIdle ==
    /\ dEntries = <<>>
    /\ dChildren = <<>>
    /\ dNext = 1
    /\ dPc = "idle"

ParseIdle ==
    /\ pRecords = <<>>
    /\ pNext = 1
    /\ pAuthors = <<>>
    /\ currentAuthor = ""
    /\ pPc = "idle"

ColourIdle ==
    /\ storedColors = <<>>
    /\ lastAuthors = <<>>
    /\ viewColors = <<>>
    /\ viewShown = FALSE
    /\ drawn = [author |-> <<>>, colour |-> TextColour("idle")]

ShowIdle ==
    /\ shStorage = TRUE
    /\ shHead = 1
    /\ shFiles = 1
    /\ shCache = [h \in Revisions |-> NoEntry]
    /\ shRuns = [r \in RunIds |-> NewRun]
    /\ shConfig = NoConfig
    /\ shPending = NothingPending
    /\ lastFileTree = ShowNull
    /\ currentPanel = NoPanel

\* the layout run of the webview
LayoutSpecInit == LayoutInit /\ StreamIdle /\ RleIdle /\ BlameIdle /\ WalkIdle /\ ColourIdle /\ ShowIdle /\ DirIdle /\ ParseIdle

LayoutOthers == <<streamVars, rleVars, blameVars, walkVars, colourVars, showVars, dirVars, parseVars>>

LayoutSpecNext ==
    \/ PlaceRect /\ UNCHANGED LayoutOthers
    \/ FinishPacking /\ UNCHANGED LayoutOthers
    \/ FinishLayout /\ UNCHANGED LayoutOthers
    \/ LayoutEmpty /\ UNCHANGED LayoutOthers

SpecLayout == LayoutSpecInit /\ [][LayoutSpecNext]_vars

\* one countLines call
StreamSpecInit == StreamInit /\ LayoutIdle /\ RleIdle /\ BlameIdle /\ WalkIdle /\ ColourIdle /\ ShowIdle /\ DirIdle /\ ParseIdle

StreamOthers == <<layoutVars, rleVars, blameVars, walkVars, colourVars, showVars, dirVars, parseVars>>

StreamSpecNext ==
    \/ OnData /\ UNCHANGED StreamOthers
    \/ OnEnd /\ UNCHANGED StreamOthers

SpecStream == StreamSpecInit /\ [][StreamSpecNext]_vars

\* one run of the segment loop of getBlameSegments
RleSpecInit == RleInit /\ LayoutIdle /\ StreamIdle /\ BlameIdle /\ WalkIdle /\ ColourIdle /\ ShowIdle /\ DirIdle /\ ParseIdle

RleOthers == <<layoutVars, streamVars, blameVars, walkVars, colourVars, showVars, dirVars, parseVars>>

RleSpecNext ==
    \/ RleEmpty /\ UNCHANGED RleOthers
    \/ RleBegin /\ UNCHANGED RleOthers
    \/ RleIterate /\ UNCHANGED RleOthers
    \/ RleReturn /\ UNCHANGED RleOthers

SpecSegments == RleSpecInit /\ [][RleSpecNext]_vars

\* buildFileTree's file nodes, then addBlameInfo
BlameSpecInit == BlameInit /\ LayoutIdle /\ StreamIdle /\ RleIdle /\ WalkIdle /\ ColourIdle /\ ShowIdle /\ DirIdle /\ ParseIdle

BlameOthers == <<layoutVars, streamVars, rleVars, walkVars, colourVars, showVars, dirVars, parseVars>>

BlameSpecNext ==
    \/ BlameStart /\ UNCHANGED BlameOthers
    \/ BlameNextFile /\ UNCHANGED BlameOthers
    \/ BlameResult /\ UNCHANGED BlameOthers
    \/ BlameFinish /\ UNCHANGED BlameOthers

SpecBlame == BlameSpecInit /\ [][BlameSpecNext]_vars

\* buildFileTree on a working tree
WalkSpecInit == WalkInit /\ LayoutIdle /\ StreamIdle /\ RleIdle /\ BlameIdle /\ ColourIdle /\ ShowIdle /\ DirIdle /\ ParseIdle

WalkOthers == <<layoutVars, streamVars, rleVars, blameVars, colourVars, showVars, dirVars, parseVars>>

WalkSpecNext ==
    \/ WalkNotGit /\ UNCHANGED WalkOthers
    \/ WalkStart /\ UNCHANGED WalkOthers
    \/ WalkIgnored /\ UNCHANGED WalkOthers
    \/ WalkEnterDir /\ UNCHANGED WalkOthers
    \/ WalkFile /\ UNCHANGED WalkOthers
    \/ WalkLeaveDir /\ UNCHANGED WalkOthers
    \/ WalkStatFails /\ UNCHANGED WalkOthers
    \/ WalkReaddirFails /\ UNCHANGED WalkOthers
    \/ WalkOpenFails /\ UNCHANGED WalkOthers
    \/ WalkReadFails /\ UNCHANGED WalkOthers

SpecWalk == WalkSpecInit /\ [][WalkSpecNext]_vars

\* the colours of the authors: showFileTree, saveColors, the view drawing
ColourSpecInit ==
    ColourInit /\ LayoutIdle /\ StreamIdle /\ RleIdle /\ BlameIdle /\ WalkIdle /\ ShowIdle /\ DirIdle /\ ParseIdle

ColourOthers == <<layoutVars, streamVars, rleVars, blameVars, walkVars, showVars, dirVars, parseVars>>

ColourSpecNext ==
    \/ ShowColours /\ UNCHANGED ColourOthers
    \/ SaveColors /\ UNCHANGED ColourOthers
    \/ DrawSegment /\ UNCHANGED ColourOthers

SpecColours == ColourSpecInit /\ [][ColourSpecNext]_vars

\* runs of the showFileTree command, overlapping, while HEAD moves
ShowSpecInit ==
    ShowInit /\ LayoutIdle /\ StreamIdle /\ RleIdle /\ BlameIdle /\ WalkIdle /\ DirIdle /\ ParseIdle

ShowOthers == <<layoutVars, streamVars, rleVars, blameVars, walkVars, dirVars, parseVars>>

ShowSpecNext ==
    \/ Commit /\ UNCHANGED ShowOthers
    \/ \E r \in RunIds : ShowNoRepo(r) /\ UNCHANGED ShowOthers
    \/ \E r \in RunIds : ShowStart(r) /\ UNCHANGED ShowOthers
    \/ \E r \in RunIds : ShowGotHash(r) /\ UNCHANGED ShowOthers
    \/ \E r \in RunIds : ShowCacheHit(r) /\ UNCHANGED ShowOthers
    \/ \E r \in RunIds : ShowCacheMiss(r) /\ UNCHANGED ShowOthers
    \/ \E r \in RunIds : ShowBuildFails(r) /\ UNCHANGED ShowOthers
    \/ \E r \in RunIds : ShowBuilt(r) /\ UNCHANGED ShowOthers
    \/ \E r \in RunIds : ShowBlamed(r) /\ UNCHANGED ShowOthers
    \/ \E r \in RunIds : ShowSaved(r) /\ UNCHANGED ShowOthers
    \/ ConfigOpen /\ UNCHANGED ShowOthers
    \/ ConfigSaveColors /\ UNCHANGED ShowOthers
    \/ ConfigSaved /\ UNCHANGED ShowOthers

SpecShow == ShowSpecInit /\ [][ShowSpecNext]_vars

\* buildNode on one directory, for every order of its listing
DirSpecInit ==
    DirInit /\ LayoutIdle /\ StreamIdle /\ RleIdle /\ BlameIdle /\ WalkIdle /\ ColourIdle
    /\ ShowIdle /\ ParseIdle

DirOthers == <<layoutVars, streamVars, rleVars, blameVars, walkVars, colourVars, showVars, parseVars>>

DirSpecNext ==
    \/ DirPush /\ UNCHANGED DirOthers
    \/ DirSort /\ UNCHANGED DirOthers

SpecDir == DirSpecInit /\ [][DirSpecNext]_vars

\* the parsing loop of getBlameSegments on an output of the backend
ParseSpecInit ==
    ParseInit /\ LayoutIdle /\ StreamIdle /\ RleIdle /\ BlameIdle /\ WalkIdle /\ DirIdle
    /\ ColourIdle /\ ShowIdle

ParseOthers ==
    <<layoutVars, streamVars, rleVars, blameVars, walkVars, dirVars, colourVars, showVars>>

ParseSpecNext ==
    \/ ParseStep /\ UNCHANGED ParseOthers
    \/ ParseEnd /\ UNCHANGED ParseOthers

SpecParse == ParseSpecInit /\ [][ParseSpecNext]_vars

=============================================================================
